---- MODULE Spec2Model ----
(***************************************************************************)
(* A model of the request handler, the query document IR, the identifier   *)
(* sanitizer and the SQL schema calculator of prisma-engines.              *)
(*                                                                         *)
(* Rust strings on which the code works character by character (selection  *)
(* names, datamodel names) are sequences of one-character strings; other   *)
(* strings are TLA+ strings.  Option<T> is None / Some(x).  A Rust panic   *)
(* is the value Panic(msg).                                                *)
(***************************************************************************)
EXTENDS Integers, Sequences, FiniteSets, TLC

VARIABLES
    \* graphql/handler.rs
    body,           \* the GraphQlBody of the request
    executor,       \* what ctx.executor.execute does for the query at each position
    pc,             \* where GraphQlRequestHandler::handle stands
    handles,        \* the JoinHandle of each task spawned by handle_batch
    completed,      \* the positions of the finished tasks, in completion order
    response,       \* the PrismaResponse returned by handle
    \* query_document.rs
    batch,          \* the BatchDocument the batch operations are applied to
    operation,      \* the Operation dedup_selections is applied to
    doc_pc,         \* which operation of the query document IR has run
    doc_result,     \* what it returned
    \* sanitize_datamodel_names.rs
    san_name,       \* the name given to sanitize_name
    san_pc,         \* how often the sanitizer has been applied
    san_out,        \* sanitize_name(san_name)
    san_again,      \* sanitize_name of the sanitized name
    san_datamodel,  \* the Datamodel given to sanitize_datamodel_names
    \* sql_schema_calculator.rs
    datamodel,      \* the Datamodel given to SqlSchemaCalculator::calculate
    relations,      \* what DatamodelConverter::calculate_relations yields for it
    schema_pc,      \* where calculate_internal stands
    model_tables,   \* the result of calculate_model_tables
    tables,         \* the tables calculate_internal has collected so far
    schema,         \* what calculate returned
    identifier_fields, \* what id_fields yielded for each model
    \* sql-query-connector: query_builder
    qb_columns,     \* the columns given to conditions and chunked_conditions
    qb_records,     \* the record identifiers given to them
    qb_base,        \* the ManyRelatedRecordsBaseQuery given to with_pagination
    qb_pc,          \* which operation of the query builder has run
    qb_out,         \* what it returned
    \* sql-query-connector: database/operations/read.rs
    read_selected,  \* the SelectedFields of the read
    read_find,      \* what the connection's find answers
    read_pc,        \* whether get_single_record has returned
    read_out,       \* what get_single_record or get_related_records returned
    read_related,   \* the arguments of get_related_records and the related table
    \* query_graph_builder/write/nested
    nested_input,   \* the relation field and the value of the nested write
    graph,          \* the QueryGraph under construction
    graph_pc,       \* where the builder and the interpreter stand
    parent_ids,     \* the ids the read node yields when the graph is run
    transformed,    \* what the ParentIds transform returned for them
    execution       \* the interpreter's record of each node: its state, the ids it returned

doc_vars == <<batch, operation, doc_pc, doc_result>>

handler_vars == <<body, executor, pc, handles, completed, response>>

san_vars == <<san_name, san_pc, san_out, san_again, san_datamodel>>

schema_vars == <<datamodel, relations, schema_pc, model_tables, tables, schema,
                 identifier_fields>>

query_vars == <<qb_columns, qb_records, qb_base, qb_pc, qb_out>>

read_vars == <<read_selected, read_find, read_pc, read_out, read_related>>

graph_vars == <<nested_input, graph, graph_pc, parent_ids, transformed, execution>>

vars == <<body, executor, pc, handles, completed, response,
          batch, operation, doc_pc, doc_result,
          san_name, san_pc, san_out, san_again, san_datamodel,
          datamodel, relations, schema_pc, model_tables, tables, schema,
          identifier_fields,
          qb_columns, qb_records, qb_base, qb_pc, qb_out,
          read_selected, read_find, read_pc, read_out, read_related,
          nested_input, graph, graph_pc, parent_ids, transformed, execution>>

None == [some |-> FALSE]
Some(x) == [some |-> TRUE, v |-> x]
Panic(msg) == [tag |-> "Panic", msg |-> msg]
IsPanic(r) == "tag" \in DOMAIN r /\ r.tag = "Panic"
Ok(x) == [tag |-> "Ok", v |-> x]
Err(e) == [tag |-> "Err", e |-> e]

Range(s) == {s[i] : i \in 1..Len(s)}

\* every sequence over S of length at most n
SeqsUpTo(S, n) == UNION {[1..k -> S] : k \in 0..n}

(***************************************************************************)
(* Bounds                                                                  *)
(***************************************************************************)
MaxOps == 2
MaxBatch == 3
MaxNameLen == 3
MaxFields == 2
MaxIdFields == 2
MaxNested == 3
MaxColumns == 2
MaxRecords == 3
MaxSelected == 2
MaxValues == 2
MaxIds == 2
MaxUpserts == 1
MaxRelations == 2
MaxNodes == 6
MaxSanFields == 2
MaxRelatedRows == 2

(***************************************************************************)
(* query_document.rs                                                       *)
(***************************************************************************)
FIND_ONE == <<"f", "i", "n", "d", "O", "n", "e">>
FIND_MANY == <<"f", "i", "n", "d", "M", "a", "n", "y">>

\* str::starts_with
starts_with(s, prefix) ==
    /\ Len(s) >= Len(prefix)
    /\ SubSeq(s, 1, Len(prefix)) = prefix

\* str::replacen(from, to, 1): the first occurrence of `from`, if any, replaced
replacen1(s, from, to) ==
    LET hits == {i \in 1..(Len(s) - Len(from) + 1) : SubSeq(s, i, i + Len(from) - 1) = from}
    IN  IF hits = {} THEN s
        ELSE LET i == CHOOSE h \in hits : \A g \in hits : h <= g
             IN  SubSeq(s, 1, i - 1) \o to \o SubSeq(s, i + Len(from), Len(s))

Selection(name, alias, arguments, nested_selections) ==
    [name |-> name, alias |-> alias, arguments |-> arguments,
     nested_selections |-> nested_selections]

Read(sel) == [kind |-> "Read", sel |-> sel]
Write(sel) == [kind |-> "Write", sel |-> sel]

\* QueryValue
QInt(i) == [t |-> "Int", v |-> i]
QList(vs) == [t |-> "List", v |-> vs]
\* Object(BTreeMap): the entries <<key, value>> in key order
QObject(entries) == [t |-> "Object", v |-> entries]

into_object(q) == IF q.t = "Object" THEN Some(q.v) ELSE None

Selection_is_find_one(sel) == starts_with(sel.name, FIND_ONE)

is_find_one(op) ==
    IF op.kind = "Read" THEN Selection_is_find_one(op.sel) ELSE FALSE

into_read(op) == IF op.kind = "Read" THEN Some(op.sel) ELSE None

RECURSIVE unique_by_name(_, _)
\* Itertools::unique_by(|s| s.name): an element passes when its key was not seen
unique_by_name(sels, seen) ==
    IF sels = <<>> THEN <<>>
    ELSE IF Head(sels).name \in seen
         THEN unique_by_name(Tail(sels), seen)
         ELSE <<Head(sels)>> \o unique_by_name(Tail(sels), seen \cup {Head(sels).name})

\* a variant of unique_by_name in which the last element of each key passes
RECURSIVE unique_by_name_last(_, _)
unique_by_name_last(sels, seen) ==
    IF sels = <<>> THEN <<>>
    ELSE LET n == Len(sels)
             init == SubSeq(sels, 1, n - 1)
         IN  IF sels[n].name \in seen
             THEN unique_by_name_last(init, seen)
             ELSE unique_by_name_last(init, seen \cup {sels[n].name}) \o <<sels[n]>>

\* a variant of dedup that keeps the last nested selection of each name
dedup_keep_last(sel) ==
    [sel EXCEPT !.nested_selections = unique_by_name_last(sel.nested_selections, {})]

dedup(sel) ==
    [sel EXCEPT !.nested_selections = unique_by_name(sel.nested_selections, {})]

dedup_selections(op) == [op EXCEPT !.sel = dedup(op.sel)]

Operation_name(op) == op.sel.name

nested_selections(op) == op.sel.nested_selections

BatchMulti(ops) == [tag |-> "Multi", ops |-> ops]
BatchCompact(doc) == [tag |-> "Compact", doc |-> doc]

\* a variant of can_compact that does not compare the nested selections
can_compact_ignoring_nested(b) ==
    IF b.tag = "Multi"
    THEN IF b.ops # <<>> /\ is_find_one(Head(b.ops))
         THEN \A i \in 2..Len(b.ops) :
                 /\ is_find_one(b.ops[i])
                 /\ Operation_name(Head(b.ops)) = Operation_name(b.ops[i])
         ELSE FALSE
    ELSE FALSE

can_compact(b) ==
    IF b.tag = "Multi"
    THEN IF b.ops # <<>> /\ is_find_one(Head(b.ops))
         THEN \A i \in 2..Len(b.ops) :
                 /\ is_find_one(b.ops[i])
                 /\ Operation_name(Head(b.ops)) = Operation_name(b.ops[i])
                 /\ nested_selections(Head(b.ops)) = nested_selections(b.ops[i])
         ELSE FALSE
    ELSE FALSE

\* BatchDocument::compact: the compactable branch is todo!()
compact(b) ==
    IF can_compact(b) THEN Panic("not yet implemented") ELSE b

CompactedDocument(arguments, op) ==
    [tag |-> "CompactedDocument", arguments |-> arguments, operation |-> op]

\* the first value of selection.arguments[0] taken as an object
first_entry(sel) ==
    IF sel.arguments = <<>> THEN Panic("index out of bounds")
    ELSE LET obj == into_object(sel.arguments[1][2])
         IN  IF ~obj.some THEN Panic("Trying to compact a selection with non-object argument")
             ELSE IF obj.v = <<>> THEN Panic("called Option::unwrap() on a None value")
             ELSE [tag |-> "Entry", key |-> obj.v[1][1], val |-> obj.v[1][2]]

\* impl From<Vec<Operation>> for CompactedDocument
CompactedDocument_from(ops) ==
    IF \E i \in 1..Len(ops) : ~into_read(ops[i]).some
    THEN Panic("Trying to compact a write operation.")
    ELSE
    LET selections == [i \in 1..Len(ops) |-> into_read(ops[i]).v]
        entries == [i \in 1..Len(ops) |-> first_entry(selections[i])]
    IN  IF selections = <<>> THEN Panic("index out of bounds")
        ELSE IF \E i \in 1..Len(ops) : IsPanic(entries[i])
        THEN entries[CHOOSE i \in 1..Len(ops) :
                        IsPanic(entries[i]) /\ \A j \in 1..(i - 1) : ~IsPanic(entries[j])]
        ELSE
        LET argument_name == entries[1].key
            values == [i \in 1..Len(ops) |-> entries[i].val]
            argument == <<<<argument_name \o "_in", QList(values)>>>>
            selection == Selection(replacen1(selections[1].name, FIND_ONE, FIND_MANY),
                                   selections[1].alias,
                                   <<<<"where", QObject(argument)>>>>,
                                   selections[1].nested_selections)
            arguments == [i \in 1..Len(ops) |->
                            selections[i].arguments[Len(selections[i].arguments)][2]]
        IN  CompactedDocument(arguments, Read(selection))

(***************************************************************************)
(* Inputs of the query document operations                                 *)
(***************************************************************************)
Field(name, alias) == Selection(name, alias, <<>>, <<>>)

\* nested selections: two field names, each plain or aliased
NestedFields ==
    {Field(n, a) : n \in {<<"i", "d">>, <<"n", "a", "m", "e">>}, a \in {None, Some("x")}}

SelectionNames ==
    { FIND_ONE \o <<"U", "s", "e", "r">>,
      FIND_MANY \o <<"U", "s", "e", "r">>,
      FIND_ONE \o FIND_ONE }

WhereId(i) == <<<<"where", QObject(<<<<"id", QInt(i)>>>>)>>>>

\* where: { key: value }
WhereArguments ==
    { <<<<"where", QObject(<<<<k, QInt(i)>>>>)>>>> :
        k \in {"id", "email"}, i \in {1, 2} } \ { <<<<"where", QObject(<<<<"email", QInt(2)>>>>)>>>> }

BatchNested ==
    { <<Field(<<"i", "d">>, None)>>,
      <<Field(<<"i", "d">>, Some("x"))>> }

BatchOperations ==
    { [kind |-> k, sel |-> Selection(n, None, w, ns)] :
        k \in {"Read", "Write"}, n \in SelectionNames, w \in WhereArguments, ns \in BatchNested }

DefaultOperation == Read(Selection(FIND_ONE \o <<"U", "s", "e", "r">>, None, <<>>, <<>>))

SomeCompactedDocument ==
    CompactedDocument(<<QObject(<<<<"id", QInt(1)>>>>)>>,
                      Read(Selection(FIND_MANY \o <<"U", "s", "e", "r">>, None,
                                     <<<<"where", QObject(<<<<"id_in", QList(<<QInt(1)>>)>>>>)>>>>,
                                     <<>>)))

(***************************************************************************)
(* sanitize_datamodel_names.rs                                             *)
(***************************************************************************)
LowerCase == {"a", "b", "c", "d", "e", "f", "g", "h", "i", "j", "k", "l", "m",
              "n", "o", "p", "q", "r", "s", "t", "u", "v", "w", "x", "y", "z"}
UpperCase == {"A", "B", "C", "D", "E", "F", "G", "H", "I", "J", "K", "L", "M",
              "N", "O", "P", "Q", "R", "S", "T", "U", "V", "W", "X", "Y", "Z"}
DigitChars == {"0", "1", "2", "3", "4", "5", "6", "7", "8", "9"}

\* the class [a-zA-Z]
AsciiLetter(c) == c \in LowerCase \cup UpperCase
\* the class [_a-zA-Z0-9]
WordChar(c) == c \in LowerCase \cup UpperCase \cup DigitChars \cup {"_"}

\* a variant of RE_START without the repetition: "^[^a-zA-Z]"
RE_START_one_char(name) ==
    IF name # <<>> /\ ~AsciiLetter(name[1]) THEN 1 ELSE 0

\* RE_START = "^[^a-zA-Z]+": the length of its match, 0 when it does not match
RE_START(name) ==
    CHOOSE n \in 0..Len(name) :
        /\ \A i \in 1..n : ~AsciiLetter(name[i])
        /\ n < Len(name) => AsciiLetter(name[n + 1])

\* a variant of RE without the digits: "[^_a-zA-Z]"
RE_without_digits(c) == ~(c \in LowerCase \cup UpperCase \cup {"_"})

\* RE = "[^_a-zA-Z0-9]": whether it matches the character c
RE(c) == ~WordChar(c)

RE_START_is_match(name) == RE_START(name) > 0
RE_is_match(name) == \E i \in 1..Len(name) : RE(name[i])

\* RE_START.replace_all(name, "")
RE_START_replace_all(name) == SubSeq(name, RE_START(name) + 1, Len(name))
\* RE.replace_all(name, "_")
RE_replace_all(name) == [i \in 1..Len(name) |-> IF RE(name[i]) THEN "_" ELSE name[i]]

\* the pair (sanitized name, database name)
sanitize_name(name) ==
    LET needs_sanitation == RE_START_is_match(name) \/ RE_is_match(name)
    IN  IF needs_sanitation
        THEN <<RE_replace_all(RE_START_replace_all(name)), Some(name)>>
        ELSE <<name, None>>

Alphabet == {"a", "Z", "2", "_", "!"}

ExampleName == <<"2", "u", "s", "e", "r", "!", "n", "a", "m", "e">>

\* HashMap::insert and HashMap::get, the map a sequence of (key, value) pairs
HashMap_insert(map, key, value) ==
    Append(SelectSeq(map, LAMBDA entry : entry[1] # key), <<key, value>>)

HashMap_get(map, key) ==
    IF \E i \in 1..Len(map) : map[i][1] = key
    THEN Some((CHOOSE entry \in {map[i] : i \in 1..Len(map)} : entry[1] = key)[2])
    ELSE None

\* format!("{}_{}", a, b)
format_underscore(a, b) == a \o <<"_">> \o b

\* the types of a field of the introspected datamodel
SanBase == [t |-> "Base"]
SanEnum(enum_name) == [t |-> "Enum", enum_name |-> enum_name]
SanRelation(to, name, to_fields) ==
    [t |-> "Relation", to |-> to, name |-> name, to_fields |-> to_fields]

\* the body of the loop over the fields of a model: the field, the compound id
\* and the renames after it
sanitize_field(model_name, sanitized_model_name, model_db_name, field, id_fields, enum_renames) ==
    LET sanitized_field_name == sanitize_name(field.name)[1]
        field_db_name == sanitize_name(field.name)[2]
        enum_name == field.field_type.enum_name
        named_after_field == enum_name = format_underscore(model_name, field.name)
        sanitized_enum ==
            IF named_after_field
            THEN IF ~model_db_name.some /\ ~field_db_name.some
                 THEN <<enum_name, None>>
                 ELSE <<format_underscore(sanitized_model_name, sanitized_field_name),
                        Some(enum_name)>>
            ELSE sanitize_name(enum_name)
        field_type ==
            CASE field.field_type.t = "Relation" ->
                    SanRelation(sanitize_name(field.field_type.to)[1],
                                sanitize_name(field.field_type.name)[1],
                                [i \in 1..Len(field.field_type.to_fields) |->
                                    sanitize_name(field.field_type.to_fields[i])[1]])
              [] field.field_type.t = "Enum" -> SanEnum(sanitized_enum[1])
              [] OTHER -> field.field_type
        renames ==
            IF field.field_type.t = "Enum" /\ sanitized_enum[2].some
            THEN HashMap_insert(enum_renames, sanitized_enum[2].v,
                                <<sanitized_enum[1], Some(sanitized_enum[2].v)>>)
            ELSE enum_renames
        id_field_option ==
            IF \E i \in 1..Len(id_fields) : id_fields[i] = field.name
            THEN Some(CHOOSE i \in 1..Len(id_fields) :
                          /\ id_fields[i] = field.name
                          /\ \A j \in 1..(i - 1) : id_fields[j] # field.name)
            ELSE None
    IN  [field |-> [name |-> sanitized_field_name,
                    field_type |-> field_type,
                    database_names |->
                        IF field.database_names = <<>>
                        THEN IF field_db_name.some THEN <<field_db_name.v>> ELSE <<>>
                        ELSE field.database_names],
         id_fields |-> IF id_field_option.some
                       THEN [id_fields EXCEPT ![id_field_option.v] = sanitized_field_name]
                       ELSE id_fields,
         enum_renames |-> renames]

\* the loop over the fields of a model
RECURSIVE sanitize_fields(_, _, _, _, _, _, _)
sanitize_fields(model_name, sanitized_model_name, model_db_name, fields, done, id_fields, enum_renames) ==
    IF fields = <<>>
    THEN [fields |-> done, id_fields |-> id_fields, enum_renames |-> enum_renames]
    ELSE
        LET turn == sanitize_field(model_name, sanitized_model_name, model_db_name,
                                   Head(fields), id_fields, enum_renames)
        IN  sanitize_fields(model_name, sanitized_model_name, model_db_name, Tail(fields),
                            Append(done, turn.field), turn.id_fields, turn.enum_renames)

\* the body of the loop over the models
sanitize_model(model, enum_renames) ==
    LET sanitized_model_name == sanitize_name(model.name)[1]
        model_db_name == sanitize_name(model.name)[2]
        sanitized == sanitize_fields(model.name, sanitized_model_name, model_db_name,
                                     model.fields, <<>>, model.id_fields, enum_renames)
    IN  [model |-> [name |-> sanitized_model_name,
                    database_name |-> model_db_name,
                    fields |-> sanitized.fields,
                    id_fields |-> sanitized.id_fields,
                    indices |-> [x \in 1..Len(model.indices) |->
                                    [fields |-> [i \in 1..Len(model.indices[x].fields) |->
                                        sanitize_name(model.indices[x].fields[i])[1]]]]],
         enum_renames |-> sanitized.enum_renames]

\* the loop over the models: the models and the renames of the enums
RECURSIVE sanitize_models(_, _, _)
sanitize_models(models, done, enum_renames) ==
    IF models = <<>> THEN [models |-> done, enum_renames |-> enum_renames]
    ELSE
        LET turn == sanitize_model(Head(models), enum_renames)
        IN  sanitize_models(Tail(models), Append(done, turn.model), turn.enum_renames)

\* the body of the loop over the enums
sanitize_enum(enm, enum_renames) ==
    LET renamed == HashMap_get(enum_renames, enm.name)
    IN  IF renamed.some
        THEN [name |-> renamed.v[1], database_name |-> renamed.v[2]]
        ELSE [name |-> sanitize_name(enm.name)[1],
              database_name |-> sanitize_name(enm.name)[2]]

\* sanitize_datamodel_names: the datamodel after the call
sanitize_datamodel_names(dm) ==
    LET sanitized == sanitize_models(dm.models, <<>>, <<>>)
    IN  [models |-> sanitized.models,
         enums |-> [i \in 1..Len(dm.enums) |->
                       sanitize_enum(dm.enums[i], sanitized.enum_renames)]]

(***************************************************************************)
(* sql_schema_calculator.rs                                                *)
(***************************************************************************)
Base(scalar) == [t |-> "Base", scalar |-> scalar]
Relation(to) == [t |-> "Relation", to |-> to]

DmlField(name, database_name, arity, field_type, is_unique, is_id) ==
    [name |-> name, database_name |-> database_name, arity |-> arity,
     field_type |-> field_type, is_unique |-> is_unique, is_id |-> is_id,
     default_value |-> None]

IndexDefinition(name, fields, tpe) == [name |-> name, fields |-> fields, tpe |-> tpe]

Model(name, database_name, fields, id_fields, indices) ==
    [name |-> name, database_name |-> database_name, fields |-> fields,
     id_fields |-> id_fields, indices |-> indices]

\* ModelExtensions::db_name
Model_db_name(model) ==
    IF model.database_name.some THEN model.database_name.v ELSE model.name

\* FieldExtensions::db_name
Field_db_name(field) ==
    IF field.database_name.some THEN field.database_name.v ELSE field.name

\* Model::find_field: the first field of that name
find_field(model, name) ==
    IF \E i \in 1..Len(model.fields) : model.fields[i].name = name
    THEN Some(model.fields[CHOOSE i \in 1..Len(model.fields) :
                    /\ model.fields[i].name = name
                    /\ \A j \in 1..(i - 1) : model.fields[j].name # name])
    ELSE None

RECURSIVE filter_map_find(_, _)
\* model.id_fields.iter().filter_map(|field_name| model.fields().find(..))
filter_map_find(model, names) ==
    IF names = <<>> THEN <<>>
    ELSE LET found == find_field(model, Head(names))
         IN  (IF found.some THEN <<found.v>> ELSE <<>>)
                 \o filter_map_find(model, Tail(names))

\* a variant of id_fields that chains the two parts in the other order
id_fields_compound_first(model) ==
    filter_map_find(model, model.id_fields)
        \o SelectSeq(model.fields, LAMBDA f : f.is_id)

\* id_fields: the is_id fields chained with the fields of the compound id
id_fields(model) ==
    SelectSeq(model.fields, LAMBDA f : f.is_id)
        \o filter_map_find(model, model.id_fields)

column_arity(field) ==
    CASE field.arity = "Required" -> "Required"
      [] field.arity = "List" -> "List"
      [] field.arity = "Optional" -> "Nullable"

scalar_type_for_field(field) ==
    CASE field.field_type.t = "Base" -> field.field_type.scalar
      [] field.field_type.t = "Enum" -> "String"
      [] OTHER -> Panic("This field type is not suported here.")

ColumnType(family, arity) == [family |-> family, arity |-> arity]

column_type_for_scalar_type(scalar_type, arity) ==
    IF scalar_type \in {"Int", "Float", "Boolean", "String", "DateTime"}
    THEN ColumnType(scalar_type, arity)
    ELSE Panic("not implemented")

column_type(field) ==
    LET scalar == scalar_type_for_field(field)
    IN  IF scalar \in STRING
        THEN column_type_for_scalar_type(scalar, column_arity(field))
        ELSE scalar

\* default_migration_value of a scalar field, formatted by migration_value_new
default_migration_value(field_type) ==
    CASE field_type = Base("Boolean") -> "false"
      [] field_type = Base("Int") -> "0"
      [] field_type = Base("Float") -> "0"
      [] field_type = Base("String") -> ""
      [] field_type = Base("Decimal") -> "0"
      [] field_type = Base("DateTime") -> "1970-01-01 00:00:00"

\* FieldExtensions::migration_value_new, for a field without default value
migration_value_new(field) ==
    IF field.arity # "Required" THEN None
    ELSE IF field.is_id THEN None
    ELSE Some(default_migration_value(field.field_type))

Column(name, tpe, default, auto_increment) ==
    [name |-> name, tpe |-> tpe, default |-> default, auto_increment |-> auto_increment]

RECURSIVE model_columns(_)
\* the columns of the scalar fields; a relation field has none at this stage
model_columns(fields) ==
    IF fields = <<>> THEN <<>>
    ELSE LET f == Head(fields)
         IN  (IF f.field_type.t = "Base"
              THEN <<Column(Field_db_name(f), column_type(f), migration_value_new(f), FALSE)>>
              ELSE <<>>)
                 \o model_columns(Tail(fields))

PrimaryKey(columns) == [columns |-> columns, sequence |-> None]

Index(name, columns, tpe) == [name |-> name, columns |-> columns, tpe |-> tpe]

RECURSIVE join(_, _)
\* IteratorJoin::join
join(strs, sep) ==
    IF strs = <<>> THEN ""
    ELSE IF Len(strs) = 1 THEN strs[1]
    ELSE strs[1] \o sep \o join(Tail(strs), sep)

db_names(fields) == [i \in 1..Len(fields) |-> Field_db_name(fields[i])]

\* the primary key of a model table
primary_key(model) == PrimaryKey(db_names(id_fields(model)))

single_field_indexes(model) ==
    LET unique == SelectSeq(model.fields, LAMBDA f : f.is_unique)
    IN  [i \in 1..Len(unique) |->
            Index(Model_db_name(model) \o "." \o Field_db_name(unique[i]),
                  <<Field_db_name(unique[i])>>, "Unique")]

\* one index of the model's index definitions; its fields are known to exist
multiple_field_index(model, index_definition) ==
    LET referenced_fields ==
            [i \in 1..Len(index_definition.fields) |->
                find_field(model, index_definition.fields[i]).v]
    IN  Index(IF index_definition.name.some THEN index_definition.name.v
              ELSE Model_db_name(model) \o "." \o join(db_names(referenced_fields), "_"),
              db_names(referenced_fields),
              IF index_definition.tpe = "Unique" THEN "Unique" ELSE "Normal")

Table(name, columns, indices, pk, foreign_keys) ==
    [name |-> name, columns |-> columns, indices |-> indices,
     primary_key |-> pk, foreign_keys |-> foreign_keys]

\* the closure of calculate_model_tables: the ModelTable of one model
model_table(model) ==
    LET columns == model_columns(model.fields)
    IN  IF \E i \in 1..Len(columns) : IsPanic(columns[i].tpe)
        THEN Panic("not implemented")
        ELSE IF \E i \in 1..Len(model.indices) :
                   \E k \in 1..Len(model.indices[i].fields) :
                       ~find_field(model, model.indices[i].fields[k]).some
        THEN Panic("Unknown field in index directive.")
        ELSE [tag |-> "ModelTable",
              model |-> model,
              table |-> Table(Model_db_name(model),
                              columns,
                              single_field_indexes(model)
                                  \o [i \in 1..Len(model.indices) |->
                                         multiple_field_index(model, model.indices[i])],
                              Some(primary_key(model)),
                              <<>>)]

\* calculate_model_tables: a panic in one model is a panic of the calculation
calculate_model_tables(dm) ==
    LET mapped == [i \in 1..Len(dm.models) |-> model_table(dm.models[i])]
    IN  IF \E i \in 1..Len(mapped) : IsPanic(mapped[i])
        THEN mapped[CHOOSE i \in 1..Len(mapped) :
                       IsPanic(mapped[i]) /\ \A j \in 1..(i - 1) : ~IsPanic(mapped[j])]
        ELSE [tag |-> "Ok", v |-> mapped]

(***************************************************************************)
(* Relations: what the calculator reads of a TempRelationHolder            *)
(***************************************************************************)
ManifestationInline(in_table_of_model, column, referenced_fields) ==
    [t |-> "Inline", in_table_of_model |-> in_table_of_model, column |-> column,
     referenced_fields |-> referenced_fields]

ManifestationTable == [t |-> "Table"]

TempRelationHolder(name, model_a, model_b, field_a, field_b, manifestation) ==
    [name |-> name, model_a |-> model_a, model_b |-> model_b,
     field_a |-> field_a, field_b |-> field_b, manifestation |-> manifestation]

is_list(field) == field.arity = "List"

\* a relation is one-to-one when neither of its two fields is a list
is_one_to_one(relation) == ~is_list(relation.field_a) /\ ~is_list(relation.field_b)

table_name(relation) == "_" \o relation.name

model_a_column(relation) == "A"

model_b_column(relation) == "B"

(***************************************************************************)
(* add_inline_relations_to_model_tables                                    *)
(***************************************************************************)
ForeignKey(columns, referenced_table, referenced_columns, on_delete_action) ==
    [constraint_name |-> None, columns |-> columns, referenced_table |-> referenced_table,
     referenced_columns |-> referenced_columns, on_delete_action |-> on_delete_action]

\* a variant of on_delete_action that restricts whenever the field is no list
on_delete_action_unless_list(field) ==
    IF column_arity(field) # "List" THEN "Restrict" ELSE "SetNull"

\* the on_delete_action of the foreign key of an inline relation
on_delete_action(field) ==
    IF column_arity(field) = "Required" THEN "Restrict" ELSE "SetNull"

\* the fields an inline relation references: the identifier fields of the
\* related model, or its fields named by the relation, in the model's order
referenced_fields_of(related_model, referenced_fields) ==
    IF referenced_fields = <<>>
    THEN Ok(id_fields(related_model))
    ELSE LET fields == SelectSeq(related_model.fields,
                           LAMBDA f : \E k \in 1..Len(referenced_fields) :
                                          referenced_fields[k] = f.name)
         IN  IF Len(fields) # Len(referenced_fields)
             THEN Err("References to unknown fields")
             ELSE Ok(fields)

\* column_type_for_scalar_type(scalar_type_for_field(referenced_field),
\* column_arity(field))
reference_column_type(referenced_field, field) ==
    LET scalar == scalar_type_for_field(referenced_field)
    IN  IF scalar \in STRING
        THEN column_type_for_scalar_type(scalar, column_arity(field))
        ELSE scalar

\* the columns that hold an inline relation
inline_relation_columns(column_name, referenced_fields, field) ==
    IF Len(referenced_fields) = 1
    THEN <<Column(column_name, reference_column_type(referenced_fields[1], field),
                  None, FALSE)>>
    ELSE [i \in 1..Len(referenced_fields) |->
             Column(column_name \o "_" \o Field_db_name(referenced_fields[i]),
                    reference_column_type(referenced_fields[i], field), None, FALSE)]

column_names(columns) == [i \in 1..Len(columns) |-> columns[i].name]

add_one_to_one_relation_unique_index(table, column_name) ==
    [table EXCEPT !.indices =
        Append(@, Index(table.name \o "_" \o column_name, <<column_name>>, "Unique"))]

\* the body of the loop over the relations, for one model table and relation
add_inline_relation(mt, relation) ==
    LET m == relation.manifestation
    IN  IF ~(m.t = "Inline" /\ m.in_table_of_model = mt.model.name)
        THEN Ok(mt)
        ELSE
        LET model == IF mt.model = relation.model_a
                     THEN relation.model_a ELSE relation.model_b
            related_model == IF mt.model = relation.model_a
                             THEN relation.model_b ELSE relation.model_a
            found == {i \in 1..Len(model.fields) : Field_db_name(model.fields[i]) = m.column}
        IN  IF found = {}
            THEN Panic("called Option::unwrap() on a None value")
            ELSE
            LET field == model.fields[CHOOSE i \in found : \A j \in found : i <= j]
                referenced == referenced_fields_of(related_model, m.referenced_fields)
            IN  IF referenced.tag = "Err"
                THEN referenced
                ELSE
                LET columns == inline_relation_columns(m.column, referenced.v, field)
                    foreign_key == ForeignKey(column_names(columns),
                                              Model_db_name(related_model),
                                              db_names(referenced.v),
                                              on_delete_action(field))
                    extended == [mt.table EXCEPT
                                    !.columns = @ \o columns,
                                    !.foreign_keys = Append(@, foreign_key)]
                IN  IF \E i \in 1..Len(columns) : IsPanic(columns[i].tpe)
                    THEN Panic("This field type is not suported here.")
                    ELSE Ok([mt EXCEPT !.table =
                               IF is_one_to_one(relation)
                               THEN add_one_to_one_relation_unique_index(extended, m.column)
                               ELSE extended])

RECURSIVE add_inline_relations(_, _)
\* the loop over the relations, for one model table
add_inline_relations(mt, rels) ==
    IF rels = <<>> THEN Ok(mt)
    ELSE LET r == add_inline_relation(mt, Head(rels))
         IN  IF r.tag # "Ok" THEN r ELSE add_inline_relations(r.v, Tail(rels))

\* the first result of a sequence of results that is no Ok, or their values
collect_tables(results) ==
    IF \E i \in 1..Len(results) : results[i].tag # "Ok"
    THEN results[CHOOSE i \in 1..Len(results) :
                    results[i].tag # "Ok" /\ \A j \in 1..(i - 1) : results[j].tag = "Ok"]
    ELSE Ok([i \in 1..Len(results) |-> results[i].v])

add_inline_relations_to_model_tables(mts, rels) ==
    LET results == [i \in 1..Len(mts) |-> add_inline_relations(mts[i], rels)]
        collected == collect_tables(results)
    IN  IF collected.tag # "Ok" THEN collected
        ELSE Ok([i \in 1..Len(collected.v) |-> collected.v[i].table])

(***************************************************************************)
(* calculate_relation_tables                                               *)
(***************************************************************************)
unique_fields(model) == SelectSeq(model.fields, LAMBDA f : f.is_unique)

unique_criteria(model) ==
    IF id_fields(model) # <<>> THEN id_fields(model) ELSE unique_fields(model)

\* the columns of one side of a join table, or the panic of the expect
relation_table_columns(referenced_model, reference_field_name) ==
    IF referenced_model.id_fields = <<>>
    THEN LET unique_field == unique_fields(referenced_model)
             id_field == SelectSeq(referenced_model.fields, LAMBDA f : f.is_id)
         IN  IF id_field # <<>>
             THEN Ok(<<Column(reference_field_name, column_type(id_field[1]), None, FALSE)>>)
             ELSE IF unique_field # <<>>
             THEN Ok(<<Column(reference_field_name, column_type(unique_field[1]), None, FALSE)>>)
             ELSE Panic("No unique criteria found in model")
    ELSE LET ids == id_fields(referenced_model)
         IN  Ok([i \in 1..Len(ids) |->
                    Column(reference_field_name \o "_" \o Field_db_name(ids[i]),
                           column_type(ids[i]), None, FALSE)])

\* a variant of relation_foreign_keys whose second key restricts deletion
relation_foreign_keys_restrict(relation, a_columns, b_columns) ==
    <<ForeignKey(column_names(a_columns), Model_db_name(relation.model_a),
                 db_names(unique_criteria(relation.model_a)), "Cascade"),
      ForeignKey(column_names(b_columns), Model_db_name(relation.model_b),
                 db_names(unique_criteria(relation.model_b)), "Restrict")>>

\* the two foreign keys of a join table
relation_foreign_keys(relation, a_columns, b_columns) ==
    <<ForeignKey(column_names(a_columns), Model_db_name(relation.model_a),
                 db_names(unique_criteria(relation.model_a)), "Cascade"),
      ForeignKey(column_names(b_columns), Model_db_name(relation.model_b),
                 db_names(unique_criteria(relation.model_b)), "Cascade")>>

\* the join table of a relation that is manifested as a table
relation_table(relation) ==
    LET a == relation_table_columns(relation.model_a, model_a_column(relation))
        b == relation_table_columns(relation.model_b, model_b_column(relation))
        a_columns == a.v
        b_columns == b.v
    IN  IF IsPanic(a) THEN a
        ELSE IF IsPanic(b) THEN b
        ELSE IF \E i \in 1..Len(a_columns \o b_columns) :
                   IsPanic((a_columns \o b_columns)[i].tpe)
        THEN Panic("This field type is not suported here.")
        ELSE
        LET foreign_keys == relation_foreign_keys(relation, a_columns, b_columns)
            columns == a_columns \o b_columns
            index == Index(table_name(relation) \o "_AB_unique", column_names(columns),
                           "Unique")
        IN  Ok(Table(table_name(relation), columns, <<index>>, None, foreign_keys))

calculate_relation_tables(rels) ==
    LET manifested == SelectSeq(rels, LAMBDA r : r.manifestation.t = "Table")
    IN  collect_tables([i \in 1..Len(manifested) |-> relation_table(manifested[i])])

(***************************************************************************)
(* calculate_internal: the column sort and the result                      *)
(***************************************************************************)
\* the characters of the names, in the order of their bytes
ByteOrder == "0123456789ABCDEFGHIJKLMNOPQRSTUVWXYZ_abcdefghijklmnopqrstuvwxyz"

byte(c) == CHOOSE i \in 1..Len(ByteOrder) : SubSeq(ByteOrder, i, i) = c

RECURSIVE str_le(_, _)
\* a.as_str().cmp(b.as_str()) is not Greater
str_le(a, b) ==
    IF a = "" THEN TRUE
    ELSE IF b = "" THEN FALSE
    ELSE IF byte(Head(a)) # byte(Head(b)) THEN byte(Head(a)) < byte(Head(b))
    ELSE str_le(Tail(a), Tail(b))

RECURSIVE insert_by_name(_, _)
insert_by_name(sorted, column) ==
    IF sorted = <<>> THEN <<column>>
    ELSE IF str_le(Head(sorted).name, column.name)
    THEN <<Head(sorted)>> \o insert_by_name(Tail(sorted), column)
    ELSE <<column>> \o sorted

RECURSIVE sort_unstable_by_name(_)
\* columns.sort_unstable_by(name): columns of one name are equal in every
\* datamodel considered here, so that their order does not show
sort_unstable_by_name(columns) ==
    IF columns = <<>> THEN <<>>
    ELSE insert_by_name(sort_unstable_by_name(SubSeq(columns, 1, Len(columns) - 1)),
                        columns[Len(columns)])

calculate_enums(dm) ==
    [i \in 1..Len(dm.enums) |->
        [name |-> IF dm.enums[i].database_name.some THEN dm.enums[i].database_name.v
                  ELSE dm.enums[i].name,
         values |-> dm.enums[i].values]]

SqlSchema(tbls, enums, sequences) ==
    [tables |-> tbls, enums |-> enums, sequences |-> sequences]

\* the end of calculate_internal, from the tables of both kinds
sorted_schema(dm, tbls) ==
    SqlSchema([i \in 1..Len(tbls) |->
                  [tbls[i] EXCEPT !.columns = sort_unstable_by_name(@)]],
              calculate_enums(dm), <<>>)

(***************************************************************************)
(* Datamodels                                                              *)
(***************************************************************************)
FieldNames == <<"a", "b", "c", "d">>

\* the kinds of field of the models: a plain column, an @id column, an @id
\* column and a unique optional column stored under another name, a relation
FieldAt(i, shape) ==
    CASE shape = "plain" ->
            DmlField(FieldNames[i], None, "Required", Base("Int"), FALSE, FALSE)
      [] shape = "id" ->
            DmlField(FieldNames[i], None, "Required", Base("Int"), FALSE, TRUE)
      [] shape = "id_mapped" ->
            DmlField(FieldNames[i], Some("col_" \o FieldNames[i]), "Required", Base("String"),
                     FALSE, TRUE)
      [] shape = "unique_mapped" ->
            DmlField(FieldNames[i], Some("col_" \o FieldNames[i]), "Optional", Base("String"),
                     TRUE, FALSE)
      [] shape = "relation" ->
            DmlField(FieldNames[i], None, "Required", Relation("Other"), FALSE, FALSE)

FieldShapes == {"plain", "id", "id_mapped", "unique_mapped", "relation"}

\* no index, a unique index over every field, an index over an unknown field
IndexLists(fields) ==
    { <<>>, <<IndexDefinition(None, <<"ghost">>, "Normal")>> }
        \cup (IF fields = <<>> THEN {}
              ELSE {<<IndexDefinition(None, [i \in 1..Len(fields) |-> fields[i].name], "Unique")>>})

Datamodel(models) == [models |-> models, enums |-> <<>>]

\* the two models of a relation: Post, whose field user points to a User, and
\* User, whose field posts points back
PeerShapes == {"plain", "id", "id_mapped", "unique_mapped"}

RelationField(name, database_name, arity, to) ==
    DmlField(name, database_name, arity, Relation(to), FALSE, FALSE)

PostModel(arity, database_name) ==
    Model("Post", None,
          <<DmlField("id", None, "Required", Base("Int"), FALSE, TRUE),
            RelationField("user", database_name, arity, "User")>>,
          <<>>, <<>>)

UserModel(fields, ids, arity) ==
    Model("User", None, fields \o <<RelationField("posts", None, arity, "Post")>>,
          ids, <<>>)

\* the relation between the two, with either model as its model_a
PostToUser(post, user, manifestation, post_is_a) ==
    IF post_is_a
    THEN TempRelationHolder("PostToUser", post, user, post.fields[2],
                            user.fields[Len(user.fields)], manifestation)
    ELSE TempRelationHolder("PostToUser", user, post, user.fields[Len(user.fields)],
                            post.fields[2], manifestation)

(***************************************************************************)
(* sql-query-connector: query_builder/mod.rs                               *)
(***************************************************************************)
\* PARAMETER_LIMIT is 10000 in the source.  The model scales it down to 2, so
\* that a list of MaxRecords identifiers is cut into more than one chunk.
PARAMETER_LIMIT == 2

\* prisma_models::RecordIdentifier: pairs of a field and a value
RecordIdentifier(pairs) == [pairs |-> pairs]

\* RecordIdentifier::values
values(ids) == [i \in 1..Len(ids.pairs) |-> ids.pairs[i][2]]

\* quaint::ast::ConditionTree, with the comparisons it holds
NoCondition == [t |-> "NoCondition"]
Equals(column, value) == [t |-> "Equals", column |-> column, value |-> value]
In(column, vals) == [t |-> "In", column |-> column, values |-> vals]
And(a, b) == [t |-> "And", a |-> a, b |-> b]
Or(a, b) == [t |-> "Or", a |-> a, b |-> b]

\* columns.zip(ids.values())
zip(xs, ys) ==
    [i \in 1..(IF Len(xs) <= Len(ys) THEN Len(xs) ELSE Len(ys)) |-> <<xs[i], ys[i]>>]

RECURSIVE fold_and(_, _)
\* the fold of one identifier: the conjunction of its equalities
fold_and(acc, cols_with_vals) ==
    IF cols_with_vals = <<>> THEN acc
    ELSE LET col == Head(cols_with_vals)[1]
             val == Head(cols_with_vals)[2]
         IN  fold_and(IF acc = NoCondition THEN Equals(col, val)
                      ELSE And(acc, Equals(col, val)),
                      Tail(cols_with_vals))

RECURSIVE fold_or(_, _)
\* the fold over the identifiers: the disjunction of their conjunctions
fold_or(acc, conds) ==
    IF conds = <<>> THEN acc
    ELSE fold_or(IF acc = NoCondition THEN Head(conds) ELSE Or(acc, Head(conds)),
                 Tail(conds))

conditions(columns, records) ==
    IF Len(columns) = 1
    THEN IF \E i \in 1..Len(records) : records[i].pairs = <<>>
         THEN Panic("called Option::unwrap() on a None value")
         ELSE In(columns[1], [i \in 1..Len(records) |-> values(records[i])[1]])
    ELSE fold_or(NoCondition,
                 [i \in 1..Len(records) |->
                     fold_and(NoCondition, zip(columns, values(records[i])))])

\* records.chunks(chunk_size)
chunks(records, chunk_size) ==
    [k \in 1..((Len(records) + chunk_size - 1) \div chunk_size) |->
        SubSeq(records, (k - 1) * chunk_size + 1,
               IF k * chunk_size <= Len(records) THEN k * chunk_size ELSE Len(records))]

\* the query the caller's closure f makes of a condition tree
Query(tree) == [t |-> "Query", conditions |-> tree]

chunked_conditions(columns, records) ==
    LET cs == chunks(records, PARAMETER_LIMIT)
    IN  [k \in 1..Len(cs) |-> Query(conditions(columns, cs[k]))]

(***************************************************************************)
(* query_builder/read/many_related_records/union_all.rs                    *)
(***************************************************************************)
SkipAndLimit(skip, limit) == [skip |-> skip, limit |-> limit]

\* quaint::ast::Select, as far as with_pagination shapes it
SelectFrom(table) ==
    [t |-> "Select", table |-> table, conditions |-> None, limit |-> None,
     offset |-> None, ordering |-> <<>>]

limit(select, n) == [select EXCEPT !.limit = Some(n)]
offset(select, n) == [select EXCEPT !.offset = Some(n)]
order_by(select, ord) == [select EXCEPT !.ordering = Append(@, ord)]
so_that(select, tree) == [select EXCEPT !.conditions = Some(tree)]

ManyRelatedRecordsBaseQuery(from_field, from_record_ids, query, order_directions,
                            condition, cursor, skip_and_limit) ==
    [from_field |-> from_field, from_record_ids |-> from_record_ids, query |-> query,
     order_directions |-> order_directions, condition |-> condition, cursor |-> cursor,
     skip_and_limit |-> skip_and_limit]

\* Ordering::internal: the order definitions of the related model alias
Ordering_internal(alias, order_directions) ==
    <<[column |-> alias, direction |-> order_directions]>>

RELATED_MODEL_ALIAS == "__RelatedModel__"

\* RelationField::relation_column
relation_column(from_field) == from_field.column

\* RecordIdentifier::single_value
single_value(id) == id.pairs[1][2]

RECURSIVE vec_dedup(_)
\* Vec::dedup: of consecutive equal elements, all but the first are dropped
vec_dedup(ids) ==
    IF Len(ids) <= 1 THEN ids
    ELSE LET front == vec_dedup(SubSeq(ids, 1, Len(ids) - 1))
             last == ids[Len(ids)]
         IN  IF front[Len(front)] = last THEN front ELSE Append(front, last)

RECURSIVE fold_order_by(_, _)
fold_order_by(acc, order_columns) ==
    IF order_columns = <<>> THEN acc
    ELSE fold_order_by(order_by(acc, Head(order_columns)), Tail(order_columns))

\* quaint::ast::Union: Union::default(), Union::new(select), union.all(select)
Union(selects, types) == [t |-> "Union", selects |-> selects, types |-> types]

with_pagination(base) ==
    LET distinct_ids == vec_dedup(base.from_record_ids)
        order_columns == Ordering_internal(RELATED_MODEL_ALIAS, base.order_directions)
        base_condition == And(base.condition, base.cursor)
        limited == IF base.skip_and_limit.limit.some
                   THEN offset(limit(base.query, base.skip_and_limit.limit.v),
                               base.skip_and_limit.skip)
                   ELSE offset(base.query, base.skip_and_limit.skip)
        base_query == fold_order_by(limited, order_columns)
        build_cond(id) ==
            so_that(base_query,
                    And(base_condition,
                        Equals(relation_column(base.from_field), single_value(id))))
    IN  IF distinct_ids # <<>>
        THEN Union([i \in 1..Len(distinct_ids) |-> build_cond(distinct_ids[i])],
                   [i \in 1..(Len(distinct_ids) - 1) |-> "All"])
        ELSE Union(<<>>, <<>>)

\* the inputs of the query builder
QbColumnNames == <<"a", "b", "c">>

QbValues == {1, 2}

QbFromField == [name |-> "posts", column |-> "user"]

(***************************************************************************)
(* sql-query-connector: database/operations/read.rs                        *)
(***************************************************************************)
\* the kinds of SqlError, the two that say that no record was found first
SqlErrors ==
    {"RecordNotFoundForWhere", "RecordDoesNotExist", "UniqueConstraintViolation",
     "NullConstraintViolation", "ColumnDoesNotExist", "ConnectionError", "QueryError"}

SqlError(kind) == [kind |-> kind]

\* the row the connection found: a value for every selected field
SqlRow(vals) == [t |-> "SqlRow", values |-> vals]

\* Record::from(SqlRow)
Record_from(row) == [t |-> "Record", values |-> row.values, parent_id |-> None]

SingleRecord(record, field_names) == [record |-> record, field_names |-> field_names]

\* SelectedFields::db_names
selected_db_names(selected_fields) ==
    [i \in 1..Len(selected_fields) |-> selected_fields[i].db_name]

\* a variant of get_single_record that takes every error for an absence
get_single_record_absent_on_error(found, selected_fields) ==
    IF found.tag = "Ok"
    THEN Ok(Some(SingleRecord(Record_from(found.v), selected_db_names(selected_fields))))
    ELSE Ok(None)

\* get_single_record, of what conn.find answered
get_single_record(found, selected_fields) ==
    LET field_names == selected_db_names(selected_fields)
        matched == CASE found.tag = "Ok" -> Ok(Some(found.v))
                     [] found.tag = "Err" /\ found.e.kind = "RecordNotFoundForWhere" -> Ok(None)
                     [] found.tag = "Err" /\ found.e.kind = "RecordDoesNotExist" -> Ok(None)
                     [] OTHER -> Err(found.e)
    IN  IF matched.tag = "Err" THEN matched
        ELSE IF matched.v.some
        THEN Ok(Some(SingleRecord(Record_from(matched.v.v), field_names)))
        ELSE Ok(None)

\* the fields a read can select
SelectableFields ==
    {[name |-> "id", db_name |-> "id"], [name |-> "email", db_name |-> "email_column"],
     [name |-> "name", db_name |-> "name"]}

(***************************************************************************)
(* query_graph_builder/write/utils.rs and nested/update_nested.rs          *)
(***************************************************************************)
\* ParsedInputValue; a ParsedInputMap is kept as its entries in key order
PSingle(v) == [kind |-> "Single", v |-> v]

PList(l) == [kind |-> "List", l |-> l]

PMap(m) == [kind |-> "Map", m |-> m]

\* PrismaValue::Null, apart from every other value (these are 1, 2, ..)
Null == 0

\* TryInto<ParsedInputMap> for ParsedInputValue
try_into_map(value) ==
    IF value.kind = "Map" THEN Ok(value.m) ELSE Err("QueryParserError")

\* BTreeMap::remove: the value under the key, if any, and the map without it
map_remove(m, key) ==
    LET at == {i \in 1..Len(m) : m[i][1] = key}
        keep == [i \in 1..Len(m) |-> m[i][1] # key]
        shrink[i \in 0..Len(m)] ==
            IF i = 0 THEN <<>>
            ELSE IF keep[i] THEN Append(shrink[i - 1], m[i]) ELSE shrink[i - 1]
    IN  [removed |-> IF at = {} THEN None ELSE Some(m[CHOOSE i \in at : TRUE][2]),
         rest |-> shrink[Len(m)]]

\* InputAssertions::assert_size
assert_size(m, size) ==
    IF Len(m) = size THEN Ok(m) ELSE Err("AssertionError")

\* InputAssertions::assert_non_null
assert_non_null(m) ==
    IF \E i \in 1..Len(m) : m[i][2] = PSingle(Null) THEN Err("AssertionError") ELSE Ok(m)

\* connector::Filter
Filter_empty == [t |-> "Empty"]

Filter_and(filters) == [t |-> "And", filters |-> filters]

Filter_or(filters) == [t |-> "Or", filters |-> filters]

\* ScalarCompare::equals
field_equals(field, value) == [t |-> "Equals", field |-> field, value |-> value]

\* extract_filter: the conjunction of one equality per entry of the where map
extract_filter(where_arg) ==
    Filter_and([i \in 1..Len(where_arg) |-> field_equals(where_arg[i][1], where_arg[i][2].v)])

\* IdFilter for RecordIdentifier
IdFilter_filter(id) ==
    Filter_and([i \in 1..Len(id.pairs) |-> field_equals(id.pairs[i][1], id.pairs[i][2])])

\* IdFilter for Vec<RecordIdentifier>
IdFilter_filter_vec(ids) ==
    Filter_or([i \in 1..Len(ids) |-> IdFilter_filter(ids[i])])

\* coerce_vec
coerce_vec(val) ==
    IF val.kind = "List" THEN val.l ELSE <<val>>

\* Model::primary_identifier
primary_identifier(model) == <<"id">>

\* the nodes of a query graph
CreateRecord(model, args) ==
    [kind |-> "CreateRecord", model |-> model, args |-> args]

UpdateRecord(model, where, args) ==
    [kind |-> "UpdateRecord", model |-> model, where |-> where, args |-> args]

RelatedRecordsQuery(name, parent_field, relation_parent_ids, args, selected_fields) ==
    [kind |-> "RelatedRecordsQuery", name |-> name, alias |-> None,
     parent_field |-> parent_field, relation_parent_ids |-> relation_parent_ids,
     args |-> args, selected_fields |-> selected_fields,
     nested |-> <<>>, selection_order |-> <<>>]

\* UpdateRecord::add_filter
add_filter(ur, filter) == [ur EXCEPT !.where = Filter_and(<<@, filter>>)]

\* QueryGraphDependency::ParentIds, its closure named by the place that builds it
ParentIds(identifier, transform) ==
    [kind |-> "ParentIds", identifier |-> identifier, transform |-> transform]

\* QueryGraph::create_node: the graph with the node, and the NodeRef
create_node(g, node) ==
    [graph |-> [g EXCEPT !.nodes = Append(@, node)], node |-> Len(g.nodes) + 1]

\* QueryGraph::create_edge
create_edge(g, from, to, dependency) ==
    [g EXCEPT !.edges = Append(@, [from |-> from, to |-> to, dependency |-> dependency])]

\* the closure of insert_find_children_by_parent_node
find_children_transform(node, ids) ==
    [result |-> Ok(IF node.kind = "RelatedRecordsQuery"
                   THEN [node EXCEPT !.relation_parent_ids = Some(ids)]
                   ELSE node),
     parent_ids |-> ids]

\* insert_find_children_by_parent_node
insert_find_children_by_parent_node(g, parent_node, parent_relation_field, filter) ==
    LET parent_model_identifier == primary_identifier(parent_relation_field.model)
        selected_fields == primary_identifier(parent_relation_field.related_model)
        created == create_node(g, RelatedRecordsQuery("find_children_by_parent",
                       parent_relation_field, None, filter, selected_fields))
    IN  [graph |-> create_edge(created.graph, parent_node, created.node,
                       ParentIds(parent_model_identifier, "find_children_by_parent")),
         node |-> created.node]

\* update::update_record_node, of data without nested writes
update_record_node(g, filter, model, data_map) ==
    create_node(g, UpdateRecord(model, filter, data_map))

\* Vec::pop
pop(v) ==
    IF v = <<>> THEN [popped |-> None, rest |-> <<>>]
    ELSE [popped |-> Some(v[Len(v)]), rest |-> [i \in 1..(Len(v) - 1) |-> v[i]]]

\* a variant of the closure that lets an empty list of ids pass
nested_update_transform_unchecked(node, ids) ==
    LET p == pop(ids)
    IN  IF ~p.popped.some THEN [result |-> Ok(node), parent_ids |-> p.rest]
        ELSE [result |-> Ok(IF node.kind = "UpdateRecord"
                            THEN add_filter(node, IdFilter_filter(p.popped.v))
                            ELSE node),
              parent_ids |-> p.rest]

\* the closure of connect_nested_update: its answer and what is left of its ids
nested_update_transform(node, ids) ==
    LET p == pop(ids)
    IN  IF ~p.popped.some
        THEN [result |-> Err("AssertionError"), parent_ids |-> p.rest]
        ELSE [result |-> Ok(IF node.kind = "UpdateRecord"
                            THEN add_filter(node, IdFilter_filter(p.popped.v))
                            ELSE node),
              parent_ids |-> p.rest]

\* one turn of the loop of connect_nested_update
connect_nested_update_value(g, parent, parent_relation_field, value, child_model) ==
    LET map == try_into_map(value)
        where_value == map_remove(map.v, "where")
        where_arg == try_into_map(where_value.removed.v)
        data_value == map_remove(where_value.rest, "data")
        split ==
            IF ~parent_relation_field.is_list THEN Ok([data |-> value, filter |-> Filter_empty])
            ELSE IF map.tag = "Err" THEN map
            ELSE IF ~where_value.removed.some THEN Panic("called Option::unwrap() on a None value")
            ELSE IF where_arg.tag = "Err" THEN where_arg
            ELSE IF assert_size(where_arg.v, 1).tag = "Err" THEN assert_size(where_arg.v, 1)
            ELSE IF assert_non_null(where_arg.v).tag = "Err" THEN assert_non_null(where_arg.v)
            ELSE IF ~data_value.removed.some THEN Panic("called Option::unwrap() on a None value")
            ELSE Ok([data |-> data_value.removed.v, filter |-> extract_filter(where_arg.v)])
    IN  IF split.tag # "Ok" THEN [graph |-> g, result |-> split]
        ELSE
            LET find_child_records_node ==
                    insert_find_children_by_parent_node(g, parent, parent_relation_field,
                                                        split.v.filter)
                data == try_into_map(split.v.data)
            IN  IF data.tag = "Err"
                THEN [graph |-> find_child_records_node.graph, result |-> data]
                ELSE
                    LET update_node == update_record_node(find_child_records_node.graph,
                                           Filter_empty, child_model, data.v)
                        child_model_identifier ==
                            primary_identifier(parent_relation_field.related_model)
                    IN  [graph |-> create_edge(update_node.graph,
                                       find_child_records_node.node, update_node.node,
                                       ParentIds(child_model_identifier, "nested_update")),
                         result |-> Ok(<<>>)]

\* connect_nested_update: the graph it leaves and what it returns
RECURSIVE connect_nested_update_from(_, _, _, _, _)
connect_nested_update_from(g, parent, parent_relation_field, vs, child_model) ==
    IF vs = <<>> THEN [graph |-> g, result |-> Ok(<<>>)]
    ELSE
        LET turn == connect_nested_update_value(g, parent, parent_relation_field,
                                                Head(vs), child_model)
        IN  IF turn.result.tag # "Ok" THEN turn
            ELSE connect_nested_update_from(turn.graph, parent, parent_relation_field,
                                            Tail(vs), child_model)

connect_nested_update(g, parent, parent_relation_field, value, child_model) ==
    connect_nested_update_from(g, parent, parent_relation_field, coerce_vec(value), child_model)

(***************************************************************************)
(* query_graph_builder/write/nested/upsert_nested.rs                       *)
(***************************************************************************)
\* Flow::If with the value its predicate closure returns
If(predicate) == [kind |-> "If", predicate |-> predicate]

\* Flow::default_if
default_if == If(TRUE)

\* Node::Empty
Empty == [kind |-> "Empty"]

UpdateManyRecords(model, filter, args) ==
    [kind |-> "UpdateManyRecords", model |-> model, filter |-> filter, args |-> args]

\* the node connect::connect_records_node creates
ConnectRecords(parent_relation_field) ==
    [kind |-> "ConnectRecords", relation_field |-> parent_relation_field]

\* a ParentIds dependency whose closure captures values of its builder
ParentIdsCapturing(identifier, transform, captured) ==
    [kind |-> "ParentIds", identifier |-> identifier, transform |-> transform,
     captured |-> captured]

\* QueryGraphDependency::ExecutionOrder, Then and Else
ExecutionOrder == [kind |-> "ExecutionOrder"]

Then == [kind |-> "Then"]

Else == [kind |-> "Else"]

\* Node::Query(Query::Write(_))
is_write(node) ==
    node.kind \in {"CreateRecord", "UpdateRecord", "UpdateManyRecords", "ConnectRecords",
                   "DeleteRecord"}

\* WriteQuery::add_filter: the conjunction of the present filter and the new one
WriteQuery_add_filter(wq, filter) ==
    CASE wq.kind = "UpdateRecord" -> add_filter(wq, filter)
      [] wq.kind = "UpdateManyRecords" -> [wq EXCEPT !.filter = Filter_and(<<@, filter>>)]
      [] OTHER -> wq

\* WriteQuery::inject_field_arg: the argument is set for the field
inject_field_arg(wq, name, value) ==
    IF wq.kind \in {"CreateRecord", "UpdateRecord", "UpdateManyRecords"}
    THEN LET others == map_remove(wq.args, name).rest
         IN  [wq EXCEPT !.args = Append(others, <<name, PSingle(value)>>)]
    ELSE wq

\* Fields::find_singular_id(..).data_source_field()
find_singular_id(model) == "id"

\* create::create_record_node, of data without nested writes
create_record_node(g, model, data_map) ==
    create_node(g, CreateRecord(model, data_map))

\* connect::connect_records_node: a connect node fed by the parent and the child
connect_records_node(g, parent_node, child_node, parent_relation_field) ==
    LET created == create_node(g, ConnectRecords(parent_relation_field))
        from_parent == create_edge(created.graph, parent_node, created.node,
                           ParentIds(primary_identifier(parent_relation_field.model),
                                     "connect_parent"))
    IN  [graph |-> create_edge(from_parent, child_node, created.node,
                       ParentIds(primary_identifier(parent_relation_field.related_model),
                                 "connect_child")),
         node |-> created.node]

\* update_records_node_placeholder
update_records_node_placeholder(g, filter, model) ==
    create_node(g, UpdateManyRecords(model, filter, <<>>))

\* a variant of the closure whose predicate holds when no child was read
upsert_if_transform_negated(node, ids) ==
    [result |-> Ok(IF node.kind = "If" THEN If(ids = <<>>) ELSE node), parent_ids |-> ids]

\* the closure of the edge from the read to the If node
upsert_if_transform(node, ids) ==
    [result |-> Ok(IF node.kind = "If" THEN If(ids # <<>>) ELSE node), parent_ids |-> ids]

\* the closure of the edge from the read to the update
upsert_update_transform(node, ids, id_field) ==
    IF node.kind = "UpdateRecord"
    THEN LET p == pop(ids)
         IN  IF ~p.popped.some
             THEN [result |-> Err("AssertionError"), parent_ids |-> p.rest]
             ELSE [result |-> Ok(add_filter(node, field_equals(id_field,
                                                     single_value(p.popped.v)))),
                   parent_ids |-> p.rest]
    ELSE [result |-> Ok(node), parent_ids |-> ids]

\* a variant of the closure that leaves the parent update without its finder
upsert_finder_transform_unfiltered(child_node, ids, id_field) ==
    LET p == pop(ids)
    IN  IF ~p.popped.some THEN [result |-> Err("AssertionError"), parent_ids |-> p.rest]
        ELSE [result |-> Ok(child_node), parent_ids |-> p.rest]

\* the closure of the edge that retrieves the finder of the parent update
upsert_finder_transform(child_node, ids, id_field) ==
    LET p == pop(ids)
    IN  IF ~p.popped.some THEN [result |-> Err("AssertionError"), parent_ids |-> p.rest]
        ELSE [result |-> Ok(IF is_write(child_node)
                            THEN WriteQuery_add_filter(child_node,
                                     field_equals(id_field, single_value(p.popped.v)))
                            ELSE child_node),
              parent_ids |-> p.rest]

\* the closures of the edges that retrieve an id to inject (into the parent
\* update, lines 201-214, and into the child create, lines 224-237)
upsert_inject_transform(child_node, ids, related_field_name) ==
    LET p == pop(ids)
    IN  IF ~p.popped.some THEN [result |-> Err("AssertionError"), parent_ids |-> p.rest]
        ELSE [result |-> Ok(IF is_write(child_node)
                            THEN inject_field_arg(child_node, related_field_name,
                                                  single_value(p.popped.v))
                            ELSE child_node),
              parent_ids |-> p.rest]

\* the handling by relation type and inlining side, after the four edges
upsert_relation_handling(g, parent_node, parent_relation_field, create_node_ref) ==
    LET child_model_identifier == primary_identifier(parent_relation_field.related_model)
    IN  IF parent_relation_field.is_many_to_many
        THEN connect_records_node(g, parent_node, create_node_ref, parent_relation_field).graph
        ELSE IF parent_relation_field.relation_is_inlined_in_parent
        THEN LET parent_model == parent_relation_field.model
                 update_node == update_records_node_placeholder(g, Filter_empty, parent_model)
                 finder == create_edge(update_node.graph, parent_node, update_node.node,
                               ParentIdsCapturing(child_model_identifier, "upsert_finder",
                                                  find_singular_id(parent_model)))
             IN  create_edge(finder, create_node_ref, update_node.node,
                     ParentIdsCapturing(child_model_identifier, "upsert_inject_child_id",
                                        parent_relation_field.name))
        ELSE create_edge(g, parent_node, create_node_ref,
                 ParentIdsCapturing(child_model_identifier, "upsert_inject_parent_id",
                                    parent_relation_field.related_field.name))

\* one turn of the loop of connect_nested_upsert
connect_nested_upsert_value(g, parent_node, parent_relation_field, value) ==
    LET child_model == parent_relation_field.related_model
        child_model_identifier == primary_identifier(child_model)
        as_map == try_into_map(value)
        create_input == map_remove(as_map.v, "create")
        update_input == map_remove(create_input.rest, "update")
        where_value == map_remove(update_input.rest, "where")
        where_input == try_into_map(where_value.removed.v)
        filter ==
            IF ~parent_relation_field.is_list THEN Ok(Filter_empty)
            ELSE IF ~where_value.removed.some THEN Panic("where argument is missing")
            ELSE IF where_input.tag = "Err" THEN where_input
            ELSE IF assert_size(where_input.v, 1).tag = "Err" THEN assert_size(where_input.v, 1)
            ELSE IF assert_non_null(where_input.v).tag = "Err"
            THEN assert_non_null(where_input.v)
            ELSE Ok(extract_filter(where_input.v))
    IN  IF as_map.tag = "Err" THEN [graph |-> g, result |-> as_map]
        ELSE IF ~create_input.removed.some
        THEN [graph |-> g, result |-> Panic("create argument is missing")]
        ELSE IF ~update_input.removed.some
        THEN [graph |-> g, result |-> Panic("update argument is missing")]
        ELSE IF filter.tag # "Ok" THEN [graph |-> g, result |-> filter]
        ELSE
            LET read_children_node ==
                    insert_find_children_by_parent_node(g, parent_node,
                                                        parent_relation_field, filter.v)
                create_data == try_into_map(create_input.removed.v)
                update_data == try_into_map(update_input.removed.v)
            IN  IF create_data.tag = "Err"
                THEN [graph |-> read_children_node.graph, result |-> create_data]
                ELSE
                    LET created == create_record_node(read_children_node.graph, child_model,
                                                      create_data.v)
                    IN  IF update_data.tag = "Err"
                        THEN [graph |-> created.graph, result |-> update_data]
                        ELSE
                            LET update_node == update_record_node(created.graph, Filter_empty,
                                                   child_model, update_data.v)
                                if_node == create_node(update_node.graph, default_if)
                                e1 == create_edge(if_node.graph, read_children_node.node,
                                          if_node.node,
                                          ParentIds(child_model_identifier, "upsert_if"))
                                e2 == create_edge(e1, read_children_node.node,
                                          update_node.node,
                                          ParentIdsCapturing(child_model_identifier,
                                              "upsert_update", find_singular_id(child_model)))
                                e3 == create_edge(e2, if_node.node, update_node.node, Then)
                                e4 == create_edge(e3, if_node.node, created.node, Else)
                            IN  [graph |-> upsert_relation_handling(e4, parent_node,
                                               parent_relation_field, created.node),
                                 result |-> Ok(<<>>)]

\* connect_nested_upsert: the graph it leaves and what it returns
RECURSIVE connect_nested_upsert_from(_, _, _, _)
connect_nested_upsert_from(g, parent_node, parent_relation_field, vs) ==
    IF vs = <<>> THEN [graph |-> g, result |-> Ok(<<>>)]
    ELSE
        LET turn == connect_nested_upsert_value(g, parent_node, parent_relation_field,
                                                Head(vs))
        IN  IF turn.result.tag # "Ok" THEN turn
            ELSE connect_nested_upsert_from(turn.graph, parent_node, parent_relation_field,
                                            Tail(vs))

connect_nested_upsert(g, parent_node, parent_relation_field, value) ==
    connect_nested_upsert_from(g, parent_node, parent_relation_field, coerce_vec(value))

(***************************************************************************)
(* connect_nested_update_many, and the relation checks of write/utils.rs   *)
(***************************************************************************)
\* UpdateManyRecords::set_filter
set_filter(ur, filter) == [ur EXCEPT !.filter = filter]

\* the closure of connect_nested_update_many
update_many_transform(node, ids) ==
    [result |-> Ok(IF node.kind = "UpdateManyRecords"
                   THEN set_filter(node, Filter_and(<<node.filter, IdFilter_filter_vec(ids)>>))
                   ELSE node),
     parent_ids |-> ids]

\* one turn of the loop of connect_nested_update_many
connect_nested_update_many_value(g, parent, parent_relation_field, value, child_model) ==
    LET map == try_into_map(value)
        where_arg == map_remove(map.v, "where")
        data_value == map_remove(where_arg.rest, "data")
        data_map == try_into_map(data_value.removed.v)
        where_map == try_into_map(where_arg.removed.v)
    IN  IF map.tag = "Err" THEN [graph |-> g, result |-> map]
        ELSE IF ~where_arg.removed.some \/ ~data_value.removed.some
        THEN [graph |-> g, result |-> Panic("called Option::unwrap() on a None value")]
        ELSE IF data_map.tag = "Err" THEN [graph |-> g, result |-> data_map]
        ELSE IF where_map.tag = "Err" THEN [graph |-> g, result |-> where_map]
        ELSE
            LET child_model_identifier ==
                    primary_identifier(parent_relation_field.related_model)
                filter == extract_filter(where_map.v)
                find_child_records_node ==
                    insert_find_children_by_parent_node(g, parent, parent_relation_field,
                                                        filter)
                update_many_node == create_node(find_child_records_node.graph,
                                        UpdateManyRecords(child_model, filter, data_map.v))
            IN  [graph |-> create_edge(update_many_node.graph, find_child_records_node.node,
                               update_many_node.node,
                               ParentIds(child_model_identifier, "update_many")),
                 result |-> Ok(<<>>)]

\* connect_nested_update_many: the graph it leaves and what it returns
RECURSIVE connect_nested_update_many_from(_, _, _, _, _)
connect_nested_update_many_from(g, parent, parent_relation_field, vs, child_model) ==
    IF vs = <<>> THEN [graph |-> g, result |-> Ok(<<>>)]
    ELSE
        LET turn == connect_nested_update_many_value(g, parent, parent_relation_field,
                                                     Head(vs), child_model)
        IN  IF turn.result.tag # "Ok" THEN turn
            ELSE connect_nested_update_many_from(turn.graph, parent, parent_relation_field,
                                                 Tail(vs), child_model)

connect_nested_update_many(g, parent, parent_relation_field, value, child_model) ==
    connect_nested_update_many_from(g, parent, parent_relation_field, coerce_vec(value),
                                    child_model)

\* a variant of the closure whose predicate forgets where the relation is inlined
existing_child_transform_any_side(node, child_ids, child_side_required, relation_inlined_parent) ==
    IF Len(child_ids) > 0 /\ child_side_required
    THEN [result |-> Err("RelationViolation"), parent_ids |-> child_ids]
    ELSE IF node.kind = "If"
    THEN [result |-> Ok(If(child_ids # <<>>)), parent_ids |-> child_ids]
    ELSE [result |-> Panic("internal error: entered unreachable code"),
          parent_ids |-> child_ids]

\* the closure of the edge from the read of the existing child to the If node
existing_child_transform(node, child_ids, child_side_required, relation_inlined_parent) ==
    IF Len(child_ids) > 0 /\ child_side_required
    THEN [result |-> Err("RelationViolation"), parent_ids |-> child_ids]
    ELSE IF node.kind = "If"
    THEN [result |-> Ok(If(~relation_inlined_parent /\ child_ids # <<>>)),
          parent_ids |-> child_ids]
    ELSE [result |-> Panic("internal error: entered unreachable code"),
          parent_ids |-> child_ids]

\* the closure of the edge from the read of the existing child to its update
disconnect_transform(child_node, child_ids, child_id_field, relation_field_name) ==
    LET p == pop(child_ids)
    IN  IF ~p.popped.some THEN [result |-> Err("AssertionError"), parent_ids |-> p.rest]
        ELSE [result |-> Ok(IF is_write(child_node)
                            THEN inject_field_arg(
                                     WriteQuery_add_filter(child_node,
                                         field_equals(child_id_field,
                                                      single_value(p.popped.v))),
                                     relation_field_name, Null)
                            ELSE child_node),
              parent_ids |-> p.rest]

\* insert_existing_1to1_related_model_checks
insert_existing_1to1_related_model_checks(g, parent_node, parent_relation_field) ==
    LET child_model_identifier == primary_identifier(parent_relation_field.related_model)
        child_model == parent_relation_field.related_model
        child_id_field == find_singular_id(child_model)
        child_side_required == parent_relation_field.related_field.is_required
        relation_inlined_parent == parent_relation_field.relation_is_inlined_in_parent
        read_existing_children ==
            insert_find_children_by_parent_node(g, parent_node, parent_relation_field,
                                                Filter_empty)
        update_existing_child ==
            update_records_node_placeholder(read_existing_children.graph, Filter_empty,
                                            child_model)
        if_node == create_node(update_existing_child.graph, default_if)
        e1 == create_edge(if_node.graph, read_existing_children.node, if_node.node,
                  ParentIdsCapturing(child_model_identifier, "existing_child",
                      [child_side_required |-> child_side_required,
                       relation_inlined_parent |-> relation_inlined_parent]))
        relation_field_name == parent_relation_field.related_field.name
        e2 == create_edge(e1, if_node.node, update_existing_child.node, Then)
    IN  [graph |-> create_edge(e2, read_existing_children.node, update_existing_child.node,
                       ParentIdsCapturing(child_model_identifier, "disconnect",
                           [child_id_field |-> child_id_field,
                            relation_field_name |-> relation_field_name])),
         result |-> Ok(<<>>)]

\* a variant of the closure that lets a related record pass
deletion_check_transform_unchecked(node, ids) ==
    [result |-> Ok(node), parent_ids |-> ids]

\* the closure of the edge from a check's read to the Empty node
deletion_check_transform(node, ids) ==
    IF ids # <<>> THEN [result |-> Err("RelationViolation"), parent_ids |-> ids]
    ELSE [result |-> Ok(node), parent_ids |-> ids]

\* the loop of insert_deletion_checks: a read and its edge to the Empty node for
\* each field requiring the model; the graph and the reads, in order
RECURSIVE deletion_check_reads(_, _, _, _, _)
deletion_check_reads(g, parent_node, noop_node, relation_fields, check_nodes) ==
    IF relation_fields = <<>> THEN [graph |-> g, check_nodes |-> check_nodes]
    ELSE
        LET relation_field == Head(relation_fields).related_field
            child_model_identifier == primary_identifier(relation_field.related_model)
            read_node == insert_find_children_by_parent_node(g, parent_node, relation_field,
                                                             Filter_empty)
            checked == create_edge(read_node.graph, read_node.node, noop_node,
                           ParentIds(child_model_identifier, "deletion_check"))
        IN  deletion_check_reads(checked, parent_node, noop_node, Tail(relation_fields),
                                 Append(check_nodes, read_node.node))

\* Itertools::fold1 over the reads: an ExecutionOrder edge between neighbours
RECURSIVE chain_checks(_, _)
chain_checks(g, check_nodes) ==
    IF Len(check_nodes) < 2 THEN g
    ELSE chain_checks(create_edge(g, check_nodes[1], check_nodes[2], ExecutionOrder),
                      Tail(check_nodes))

\* a variant of insert_deletion_checks whose Empty node gates the parent node
insert_deletion_checks_before_parent(g, relation_fields, parent_node, child_node) ==
    IF Len(relation_fields) > 0
    THEN LET noop_node == create_node(g, Empty)
             reads == deletion_check_reads(noop_node.graph, parent_node, noop_node.node,
                                           relation_fields, <<>>)
             chained == chain_checks(reads.graph, reads.check_nodes)
         IN  [graph |-> create_edge(chained, noop_node.node, parent_node, ExecutionOrder),
              result |-> Ok(<<>>)]
    ELSE [graph |-> g, result |-> Ok(<<>>)]

\* insert_deletion_checks, given the fields requiring the model
insert_deletion_checks(g, relation_fields, parent_node, child_node) ==
    IF Len(relation_fields) > 0
    THEN LET noop_node == create_node(g, Empty)
             reads == deletion_check_reads(noop_node.graph, parent_node, noop_node.node,
                                           relation_fields, <<>>)
             chained == chain_checks(reads.graph, reads.check_nodes)
         IN  [graph |-> create_edge(chained, noop_node.node, child_node, ExecutionOrder),
              result |-> Ok(<<>>)]
    ELSE [graph |-> g, result |-> Ok(<<>>)]

\* the transform an edge carries, applied as the interpreter applies it
apply_transform(dependency, node, ids) ==
    CASE dependency.transform = "nested_update" -> nested_update_transform(node, ids)
      [] dependency.transform = "upsert_if" -> upsert_if_transform(node, ids)
      [] dependency.transform = "upsert_update" ->
            upsert_update_transform(node, ids, dependency.captured)
      [] dependency.transform = "upsert_finder" ->
            upsert_finder_transform(node, ids, dependency.captured)
      [] dependency.transform \in {"upsert_inject_child_id", "upsert_inject_parent_id"} ->
            upsert_inject_transform(node, ids, dependency.captured)
      [] dependency.transform = "update_many" -> update_many_transform(node, ids)
      [] dependency.transform = "existing_child" ->
            existing_child_transform(node, ids, dependency.captured.child_side_required,
                                     dependency.captured.relation_inlined_parent)
      [] dependency.transform = "disconnect" ->
            disconnect_transform(node, ids, dependency.captured.child_id_field,
                                 dependency.captured.relation_field_name)
      [] dependency.transform = "deletion_check" -> deletion_check_transform(node, ids)
      [] dependency.transform = "find_children_by_parent" ->
            find_children_transform(node, ids)
      [] OTHER -> [result |-> Ok(node), parent_ids |-> ids]

(***************************************************************************)
(* graphql/handler.rs                                                      *)
(***************************************************************************)
\* a query text is either one the parser or the protocol adapter rejects, or
\* one that converts to an Operation
BadQuery == [valid |-> FALSE]
GoodQuery(op) == [valid |-> TRUE, op |-> op]
SingleQuery(query) == [query |-> query]

BodySingle(q) == [tag |-> "Single", single |-> q]
BodyMulti(qs) == [tag |-> "Multi", batch |-> qs]

\* response_ir::Responses
Responses(data, errors) == [data |-> data, errors |-> errors]
\* Responses::default() followed by insert_error(err)
ErrorResponses(err) == Responses(<<>>, <<err>>)

PrismaSingle(responses) == [tag |-> "Single", responses |-> responses]
PrismaMulti(responses) == [tag |-> "Multi", responses |-> responses]

\* gql::parse_query(&body.query)? then GraphQLProtocolAdapter::convert(..)
parse_and_convert(q) ==
    IF q.query.valid THEN Ok(q.query.op) ELSE Err([kind |-> "QueryParseError"])

\* Result<Vec<_>, _>::from_iter: the first error, or every value
collect_results(rs) ==
    IF \E i \in 1..Len(rs) : rs[i].tag = "Err"
    THEN rs[CHOOSE i \in 1..Len(rs) :
                rs[i].tag = "Err" /\ \A j \in 1..(i - 1) : rs[j].tag = "Ok"]
    ELSE Ok([i \in 1..Len(rs) |-> rs[i].v])

\* impl TryFrom<GraphQlBody> for QueryDocument
QueryDocument_try_from(b) ==
    IF b.tag = "Single"
    THEN LET r == parse_and_convert(b.single)
         IN  IF r.tag = "Err" THEN r ELSE Ok([tag |-> "Single", op |-> r.v])
    ELSE LET operations == collect_results([i \in 1..Len(b.batch) |-> parse_and_convert(b.batch[i])])
         IN  IF operations.tag = "Err" THEN operations
             ELSE Ok([tag |-> "Multi", batch |-> BatchMulti(operations.v)])

\* handle_graphql_query: the executor returns data, returns an error or panics
handle_graphql_query(query_doc, outcome) ==
    CASE outcome = "data" -> Ok(Responses(<<query_doc>>, <<>>))
      [] outcome = "error" -> Err([kind |-> "CoreError", op |-> query_doc])
      [] outcome = "panic" -> Panic(query_doc)

\* a variant of handle_single_query without catch_unwind: the panic unwinds the task
handle_single_query_uncaught(query, outcome) ==
    LET r == handle_graphql_query(query, outcome)
    IN  CASE r.tag = "Ok" -> PrismaSingle(r.v)
          [] r.tag = "Err" -> PrismaSingle(ErrorResponses(r.e))
          [] r.tag = "Panic" -> r

\* handle_single_query: AssertUnwindSafe(handle_graphql_query(..)).catch_unwind()
handle_single_query(query, outcome) ==
    LET r == handle_graphql_query(query, outcome)
    IN  CASE r.tag = "Ok" -> PrismaSingle(r.v)
          [] r.tag = "Err" -> PrismaSingle(ErrorResponses(r.e))
          [] r.tag = "Panic" ->
                PrismaSingle(ErrorResponses([kind |-> "Panic", op |-> r.msg]))

\* the output of a task spawned with tokio::spawn: a JoinError when it panicked
task_output(query, outcome) ==
    LET out == handle_single_query(query, outcome)
    IN  IF IsPanic(out) THEN Err([kind |-> "JoinError"]) ELSE Ok(out)

Pending == [tag |-> "Pending"]

\* a variant of join_all that yields the outputs as the futures complete
join_all_in_completion_order(hs, order) ==
    [k \in 1..Len(hs) |-> hs[order[k]]]

\* future::join_all(futures).await: the outputs, in the order of the futures
join_all(hs, order) ==
    [i \in 1..Len(hs) |-> hs[i]]

\* handle_batch, from the point where every task has finished
handle_batch_collect(hs, order) ==
    LET joined == join_all(hs, order)
    IN  IF \E i \in 1..Len(joined) : joined[i].tag = "Err"
        THEN Panic("IO Error in tokio::spawn")
        ELSE PrismaMulti([i \in 1..Len(joined) |-> joined[i].v])

NoResponse == [tag |-> "None"]

(***************************************************************************)
(* Requests                                                                *)
(***************************************************************************)
CREATE == <<"c", "r", "e", "a", "t", "e">>

HandlerOperations ==
    { Read(Selection(FIND_ONE \o <<"U", "s", "e", "r">>, None, WhereId(1),
                     <<Field(<<"i", "d">>, None)>>)),
      Read(Selection(FIND_MANY \o <<"U", "s", "e", "r">>, None, <<>>,
                     <<Field(<<"i", "d">>, None)>>)),
      Write(Selection(CREATE \o <<"U", "s", "e", "r">>, None, <<>>,
                      <<Field(<<"i", "d">>, None)>>)) }

Outcomes == {"data", "error", "panic"}

\* a query of the request with what the executor will do for it
Entries ==
    {<<SingleQuery(BadQuery), "data">>}
        \cup {<<SingleQuery(GoodQuery(op)), o>> : op \in HandlerOperations, o \in Outcomes}

\* the state of a part of the program that takes no part in a specification
HandlerIdle ==
    /\ body = BodyMulti(<<>>)
    /\ executor = <<>>
    /\ pc = "idle"
    /\ handles = <<>>
    /\ completed = <<>>
    /\ response = NoResponse

DocIdle ==
    /\ doc_pc = "idle"
    /\ doc_result = None
    /\ batch = BatchMulti(<<>>)
    /\ operation = DefaultOperation

SanIdle ==
    /\ san_name = <<>>
    /\ san_pc = "idle"
    /\ san_out = None
    /\ san_again = None
    /\ san_datamodel = None

SchemaIdle ==
    /\ datamodel = Datamodel(<<>>)
    /\ relations = <<>>
    /\ schema_pc = "idle"
    /\ model_tables = None
    /\ tables = None
    /\ schema = None
    /\ identifier_fields = None

QueryIdle ==
    /\ qb_columns = <<>>
    /\ qb_records = <<>>
    /\ qb_base = None
    /\ qb_pc = "idle"
    /\ qb_out = None

ReadIdle ==
    /\ read_selected = <<>>
    /\ read_find = None
    /\ read_pc = "idle"
    /\ read_out = None
    /\ read_related = None

\* the interpreter has not run the graph
NotRun == [state |-> <<>>, ids |-> <<>>, error |-> None]

GraphIdle ==
    /\ nested_input = None
    /\ graph = [nodes |-> <<>>, edges |-> <<>>]
    /\ graph_pc = "idle"
    /\ parent_ids = <<>>
    /\ transformed = None
    /\ execution = NotRun

HandlerInit ==
    /\ QueryIdle
    /\ ReadIdle
    /\ GraphIdle
    /\ DocIdle
    /\ SanIdle
    /\ SchemaIdle
    /\ pc = "received"
    /\ handles = <<>>
    /\ completed = <<>>
    /\ response = NoResponse
    /\ \/ \E e \in Entries :
            /\ body = BodySingle(e[1])
            /\ executor = <<e[2]>>
       \/ \E n \in 0..MaxBatch : \E es \in [1..n -> Entries] :
            /\ body = BodyMulti([i \in 1..n |-> es[i][1]])
            /\ executor = [i \in 1..n |-> es[i][2]]

\* GraphQlRequestHandler::handle up to its first suspension
Handle ==
    /\ pc = "received"
    /\ LET doc == QueryDocument_try_from(body)
       IN  \/ /\ doc.tag = "Err"
              /\ response' = PrismaSingle(ErrorResponses(doc.e))
              /\ pc' = "responded"
              /\ UNCHANGED handles
           \/ /\ doc.tag = "Ok" /\ doc.v.tag = "Single"
              /\ pc' = "single"
              /\ UNCHANGED <<handles, response>>
           \/ /\ doc.tag = "Ok" /\ doc.v.tag = "Multi"
              /\ LET compacted == compact(doc.v.batch)
                 IN  \/ /\ IsPanic(compacted)
                        /\ pc' = "panicked"
                        /\ response' = compacted
                        /\ UNCHANGED handles
                     \/ /\ compacted.tag = "Multi"
                        \* handle_batch: one task per operation
                        /\ handles' = [i \in 1..Len(compacted.ops) |-> Pending]
                        /\ pc' = "joining"
                        /\ UNCHANGED response
    /\ UNCHANGED <<body, executor, completed, doc_vars, san_vars, schema_vars,
                   query_vars, read_vars, graph_vars>>

\* handle_single_query(query, ctx).await of a Single request returns
SingleQueryReturns ==
    /\ pc = "single"
    /\ LET out == handle_single_query(body.single.query.op, executor[1])
       IN  /\ response' = out
           /\ pc' = IF IsPanic(out) THEN "panicked" ELSE "responded"
    /\ UNCHANGED <<body, executor, handles, completed, doc_vars, san_vars, schema_vars,
                   query_vars, read_vars, graph_vars>>

\* the task spawned for the operation at position i finishes
TaskFinishes(i) ==
    /\ pc = "joining"
    /\ i \in 1..Len(handles)
    /\ handles[i] = Pending
    /\ handles' = [handles EXCEPT ![i] = task_output(body.batch[i].query.op, executor[i])]
    /\ completed' = Append(completed, i)
    /\ UNCHANGED <<body, executor, pc, response, doc_vars, san_vars, schema_vars,
                   query_vars, read_vars, graph_vars>>

\* join_all resolves once every task has finished; handle_batch returns
JoinAll ==
    /\ pc = "joining"
    /\ \A i \in 1..Len(handles) : handles[i] # Pending
    /\ LET out == handle_batch_collect(handles, completed)
       IN  /\ response' = out
           /\ pc' = IF IsPanic(out) THEN "panicked" ELSE "responded"
    /\ UNCHANGED <<body, executor, handles, completed, doc_vars, san_vars, schema_vars,
                   query_vars, read_vars, graph_vars>>

Next ==
    \/ Handle
    \/ SingleQueryReturns
    \/ \E i \in 1..MaxBatch : TaskFinishes(i)
    \/ JoinAll

Spec == HandlerInit /\ [][Next]_vars

(***************************************************************************)
(* The query document operations, applied to the inputs                    *)
(***************************************************************************)
DocInit ==
    /\ QueryIdle
    /\ ReadIdle
    /\ GraphIdle
    /\ HandlerIdle
    /\ SanIdle
    /\ SchemaIdle
    /\ doc_pc = "new"
    /\ doc_result = None
    /\ \/ /\ \/ \E n \in 0..MaxOps : \E ops \in [1..n -> BatchOperations] :
                    batch = BatchMulti(ops)
             \/ batch = BatchCompact(SomeCompactedDocument)
          /\ operation = DefaultOperation
       \/ /\ batch = BatchMulti(<<>>)
          /\ \E k \in {"Read", "Write"}, a \in {None, Some("u")},
                w \in {<<>>, WhereId(1)} :
                \E n \in 0..MaxNested : \E ns \in [1..n -> NestedFields] :
                    operation = [kind |-> k,
                                 sel |-> Selection(FIND_MANY \o <<"U", "s", "e", "r">>, a, w, ns)]

CanCompact ==
    /\ doc_pc = "new"
    /\ doc_pc' = "can_compact"
    /\ doc_result' = Some(can_compact(batch))
    /\ UNCHANGED <<batch, operation, handler_vars, san_vars, schema_vars,
                   query_vars, read_vars, graph_vars>>

Compact ==
    /\ doc_pc = "new"
    /\ doc_pc' = "compact"
    /\ doc_result' = Some(compact(batch))
    /\ UNCHANGED <<batch, operation, handler_vars, san_vars, schema_vars,
                   query_vars, read_vars, graph_vars>>

\* CompactedDocument::from, applied to the operations of a compactable batch
CompactedFrom ==
    /\ doc_pc = "new"
    /\ can_compact(batch)
    /\ doc_pc' = "from"
    /\ doc_result' = Some(CompactedDocument_from(batch.ops))
    /\ UNCHANGED <<batch, operation, handler_vars, san_vars, schema_vars,
                   query_vars, read_vars, graph_vars>>

DedupSelections ==
    /\ doc_pc = "new"
    /\ doc_pc' = "dedup_selections"
    /\ doc_result' = Some(dedup_selections(operation))
    /\ UNCHANGED <<batch, operation, handler_vars, san_vars, schema_vars,
                   query_vars, read_vars, graph_vars>>

DocNext == CanCompact \/ Compact \/ CompactedFrom \/ DedupSelections

SpecDoc == DocInit /\ [][DocNext]_vars

(***************************************************************************)
(* The sanitizer, applied to the names                                     *)
(***************************************************************************)
SanInit ==
    /\ QueryIdle
    /\ ReadIdle
    /\ GraphIdle
    /\ HandlerIdle
    /\ DocIdle
    /\ SchemaIdle
    /\ san_name \in SeqsUpTo(Alphabet, MaxNameLen) \cup {ExampleName}
    /\ san_pc = "new"
    /\ san_out = None
    /\ san_again = None
    /\ san_datamodel = None

Sanitize ==
    /\ san_pc = "new"
    /\ san_out' = Some(sanitize_name(san_name))
    /\ san_pc' = "sanitized"
    /\ UNCHANGED <<san_name, san_again, san_datamodel, handler_vars, doc_vars, schema_vars,
                   query_vars, read_vars, graph_vars>>

\* the sanitized name is sanitized once more
SanitizeAgain ==
    /\ san_pc = "sanitized"
    /\ san_again' = Some(sanitize_name(san_out.v[1]))
    /\ san_pc' = "resanitized"
    /\ UNCHANGED <<san_name, san_out, san_datamodel, handler_vars, doc_vars, schema_vars,
                   query_vars, read_vars, graph_vars>>

SanNext == Sanitize \/ SanitizeAgain

SpecSanitize == SanInit /\ [][SanNext]_vars

(***************************************************************************)
(* sanitize_datamodel_names applied to an introspected datamodel           *)
(***************************************************************************)
\* names that need no sanitation, that start with a digit, and that hold a
\* character no identifier holds
SanNames == {<<"a">>, <<"1", "b">>, <<"c", "!">>}

\* the sequences of distinct names of a length
DistinctNames(n) ==
    {s \in [1..n -> SanNames] : \A i, j \in 1..n : s[i] = s[j] => i = j}

\* the elements a sequence of options holds
Present(options) ==
    LET held == SelectSeq(options, LAMBDA o : o.some)
    IN  [i \in 1..Len(held) |-> held[i].v]

\* the first occurrences of the elements of a sequence, in order
EachOnce(s) ==
    Present([i \in 1..Len(s) |->
                IF \A j \in 1..(i - 1) : s[j] # s[i] THEN Some(s[i]) ELSE None])

\* the enums the fields of models are typed by, each once
EnumsOf(models) ==
    LET all == [m \in 1..Len(models) |->
                   Present([f \in 1..Len(models[m].fields) |->
                               IF models[m].fields[f].field_type.t = "Enum"
                               THEN Some(models[m].fields[f].field_type.enum_name)
                               ELSE None])]
        flat[m \in 0..Len(models)] == IF m = 0 THEN <<>> ELSE flat[m - 1] \o all[m]
        firsts == EachOnce(flat[Len(models)])
    IN  [i \in 1..Len(firsts) |-> [name |-> firsts[i], database_name |-> None]]

\* a model of the introspected database: its fields are scalars or typed by an
\* enum, named after the model and one of its fields or not; its compound id
\* and its index name fields of the model
SanModels ==
    UNION {
        LET enum_names == {<<"e", "!">>} \cup
                          {format_underscore(name, names[i]) : i \in 1..Len(names)}
        IN  {[name |-> name, database_name |-> None,
              fields |-> [i \in 1..Len(names) |->
                             [name |-> names[i], field_type |-> types[i],
                              database_names |-> <<>>]],
              id_fields |-> compound_id,
              indices |-> indices] :
                types \in [1..Len(names) -> {SanBase} \cup {SanEnum(e) : e \in enum_names}],
                compound_id \in {<<>>, names},
                indices \in {<<>>, <<[fields |-> <<names[Len(names)]>>]>>}}
        : name \in SanNames, names \in UNION {DistinctNames(n) : n \in 1..MaxSanFields}}

\* a second model, whose one field is a relation to the first model or is
\* typed by an enum of the first model
OtherModels(model) ==
    {[name |-> <<"O">>, database_name |-> None,
      fields |-> <<[name |-> <<"k">>, field_type |-> type, database_names |-> <<>>]>>,
      id_fields |-> <<>>, indices |-> <<>>] :
        type \in {SanRelation(model.name, <<"r">>, <<model.fields[1].name>>)}
                    \cup {model.fields[i].field_type : i \in
                             {i \in 1..Len(model.fields) :
                                 model.fields[i].field_type.t = "Enum"}}}

SanDatamodelInit ==
    /\ QueryIdle
    /\ ReadIdle
    /\ GraphIdle
    /\ HandlerIdle
    /\ DocIdle
    /\ SchemaIdle
    /\ san_name = <<>>
    /\ san_pc = "introspected"
    /\ san_out = None
    /\ san_again = None
    /\ \E model \in SanModels :
          \E models \in {<<model>>} \cup {<<model, other>> : other \in OtherModels(model)}
                           \cup {<<other, model>> : other \in OtherModels(model)} :
              san_datamodel = Some([models |-> models, enums |-> EnumsOf(models)])

\* the names of the introspected datamodel are sanitized
SanitizeDatamodelNames ==
    /\ san_pc = "introspected"
    /\ san_out' = Some(sanitize_datamodel_names(san_datamodel.v))
    /\ san_pc' = "names sanitized"
    /\ UNCHANGED <<san_name, san_again, san_datamodel, handler_vars, doc_vars, schema_vars,
                   query_vars, read_vars, graph_vars>>

SanDatamodelNext == SanitizeDatamodelNames

SpecSanitizeDatamodel == SanDatamodelInit /\ [][SanDatamodelNext]_vars

(***************************************************************************)
(* The schema calculator, applied to the datamodels                        *)
(***************************************************************************)
SchemaInit ==
    /\ QueryIdle
    /\ ReadIdle
    /\ GraphIdle
    /\ HandlerIdle
    /\ DocIdle
    /\ SanIdle
    /\ \/ \* one model without relations
          /\ \E n \in 0..MaxFields : \E shapes \in [1..n -> FieldShapes] :
                LET fields == [i \in 1..n |-> FieldAt(i, shapes[i])]
                IN  \* the compound id names fields of the model, or a field it has not
                    \E k \in 0..MaxIdFields :
                      \E ids \in [1..k -> {fields[i].name : i \in 1..n} \cup {"ghost"}] :
                        \/ \E db \in {None, Some("users")} :
                              datamodel = Datamodel(<<Model("User", db, fields, ids, <<>>)>>)
                        \/ \E ix \in IndexLists(fields) :
                              datamodel = Datamodel(<<Model("User", None, fields, ids, ix)>>)
          /\ relations = <<>>
       \/ \* two models and the relation between them
          \E n \in 0..MaxFields : \E shapes \in [1..n -> PeerShapes] :
            LET fields == [i \in 1..n |-> FieldAt(i, shapes[i])]
                names == [i \in 1..n |-> fields[i].name]
            IN  \E ids \in {<<>>, names, <<"ghost">>} : \E post_is_a \in BOOLEAN :
                  \/ \* inlined in Post: no reference, one, all, an unknown one
                     \E arity \in {"Required", "Optional"} :
                     \E back \in {"Optional", "List"} :
                     \E db \in {None, Some("user_id")} :
                     \E refs \in {<<>>, names, [i \in 1..(IF n = 0 THEN 0 ELSE 1) |-> names[i]],
                                     <<"ghost">>} :
                        LET post == PostModel(arity, db)
                            user == UserModel(fields, ids, back)
                        IN  /\ datamodel = Datamodel(<<user, post>>)
                            /\ relations =
                                  <<PostToUser(post, user,
                                        ManifestationInline("Post", Field_db_name(post.fields[2]),
                                                            refs),
                                        post_is_a)>>
                  \/ \* many to many: a join table
                     LET post == PostModel("List", None)
                         user == UserModel(fields, ids, "List")
                     IN  /\ datamodel = Datamodel(<<user, post>>)
                         /\ relations = <<PostToUser(post, user, ManifestationTable,
                                                     post_is_a)>>
    /\ schema_pc = "new"
    /\ model_tables = None
    /\ tables = None
    /\ schema = None
    /\ identifier_fields = None

\* a caller walks the identifier fields of every model
IdFields ==
    /\ schema_pc = "new"
    /\ identifier_fields' =
          Some([i \in 1..Len(datamodel.models) |-> id_fields(datamodel.models[i])])
    /\ schema_pc' = "id_fields"
    /\ UNCHANGED <<datamodel, relations, model_tables, tables, schema,
                   handler_vars, doc_vars, san_vars,
                   query_vars, read_vars, graph_vars>>

\* calculate_internal: self.calculate_model_tables()?
CalculateModelTables ==
    /\ schema_pc = "new"
    /\ LET r == calculate_model_tables(datamodel)
       IN  /\ model_tables' = Some(r)
           /\ IF r.tag = "Ok"
              THEN schema_pc' = "model_tables" /\ UNCHANGED schema
              ELSE schema_pc' = "done" /\ schema' = Some(r)
    /\ UNCHANGED <<datamodel, relations, tables, identifier_fields,
                   handler_vars, doc_vars, san_vars,
                   query_vars, read_vars, graph_vars>>

\* calculate_internal: self.add_inline_relations_to_model_tables(..)?
AddInlineRelations ==
    /\ schema_pc = "model_tables"
    /\ LET r == add_inline_relations_to_model_tables(model_tables.v.v, relations)
       IN  IF r.tag = "Ok"
           THEN schema_pc' = "inline_relations" /\ tables' = Some(r.v) /\ UNCHANGED schema
           ELSE schema_pc' = "done" /\ schema' = Some(r) /\ UNCHANGED tables
    /\ UNCHANGED <<datamodel, relations, model_tables, identifier_fields,
                   handler_vars, doc_vars, san_vars,
                   query_vars, read_vars, graph_vars>>

\* calculate_internal: self.calculate_relation_tables()? and the two appends
CalculateRelationTables ==
    /\ schema_pc = "inline_relations"
    /\ LET r == calculate_relation_tables(relations)
       IN  IF r.tag = "Ok"
           THEN schema_pc' = "relation_tables" /\ tables' = Some(tables.v \o r.v)
                    /\ UNCHANGED schema
           ELSE schema_pc' = "done" /\ schema' = Some(r) /\ UNCHANGED tables
    /\ UNCHANGED <<datamodel, relations, model_tables, identifier_fields,
                   handler_vars, doc_vars, san_vars,
                   query_vars, read_vars, graph_vars>>

\* calculate_internal: the column sort, the enums and the Ok
ReturnSchema ==
    /\ schema_pc = "relation_tables"
    /\ schema' = Some(Ok(sorted_schema(datamodel, tables.v)))
    /\ schema_pc' = "done"
    /\ UNCHANGED <<datamodel, relations, model_tables, tables, identifier_fields,
                   handler_vars, doc_vars, san_vars,
                   query_vars, read_vars, graph_vars>>

SchemaNext ==
    \/ IdFields
    \/ CalculateModelTables
    \/ AddInlineRelations
    \/ CalculateRelationTables
    \/ ReturnSchema

SpecSchema == SchemaInit /\ [][SchemaNext]_vars

(***************************************************************************)
(* The query builder, applied to columns and record identifiers            *)
(***************************************************************************)
QueryInit ==
    /\ HandlerIdle
    /\ DocIdle
    /\ SanIdle
    /\ SchemaIdle
    /\ ReadIdle
    /\ GraphIdle
    /\ \/ \* columns, and identifiers with one value for each of them
          /\ \E m \in 1..MaxColumns : \E n \in 0..MaxRecords :
                \E vs \in [1..n -> [1..m -> QbValues]] :
                   /\ qb_columns = [i \in 1..m |-> QbColumnNames[i]]
                   /\ qb_records =
                         [r \in 1..n |->
                             RecordIdentifier([i \in 1..m |-> <<QbColumnNames[i], vs[r][i]>>])]
          /\ qb_base = None
       \/ \* the parents of a related-records query, each with a single value
          /\ qb_columns = <<>>
          /\ qb_records = <<>>
          /\ \E n \in 0..MaxRecords : \E vs \in [1..n -> QbValues] :
             \E skip \in {0, 1} : \E lim \in {None, Some(1)} :
             \E dir \in {"Ascending", "Descending"} :
                qb_base = Some(ManyRelatedRecordsBaseQuery(
                              QbFromField,
                              [r \in 1..n |-> RecordIdentifier(<<<<"id", vs[r]>>>>)],
                              SelectFrom("Post"), dir, NoCondition, NoCondition,
                              SkipAndLimit(skip, lim)))
    /\ qb_pc = "new"
    /\ qb_out = None

Conditions ==
    /\ qb_pc = "new"
    /\ qb_columns # <<>>
    /\ qb_out' = Some(conditions(qb_columns, qb_records))
    /\ qb_pc' = "conditions"
    /\ UNCHANGED <<qb_columns, qb_records, qb_base, handler_vars, doc_vars, san_vars,
                   schema_vars, read_vars, graph_vars>>

ChunkedConditions ==
    /\ qb_pc = "new"
    /\ qb_columns # <<>>
    /\ qb_out' = Some(chunked_conditions(qb_columns, qb_records))
    /\ qb_pc' = "chunked_conditions"
    /\ UNCHANGED <<qb_columns, qb_records, qb_base, handler_vars, doc_vars, san_vars,
                   schema_vars, read_vars, graph_vars>>

WithPagination ==
    /\ qb_pc = "new"
    /\ qb_base.some
    /\ qb_out' = Some(with_pagination(qb_base.v))
    /\ qb_pc' = "with_pagination"
    /\ UNCHANGED <<qb_columns, qb_records, qb_base, handler_vars, doc_vars, san_vars,
                   schema_vars, read_vars, graph_vars>>

QueryNext == Conditions \/ ChunkedConditions \/ WithPagination

SpecQuery == QueryInit /\ [][QueryNext]_vars

(***************************************************************************)
(* Single-record reads, for every answer of the connection                 *)
(***************************************************************************)
ReadInit ==
    /\ HandlerIdle
    /\ DocIdle
    /\ SanIdle
    /\ SchemaIdle
    /\ QueryIdle
    /\ GraphIdle
    /\ \E n \in 0..MaxSelected : \E fields \in [1..n -> SelectableFields] :
          /\ read_selected = fields
          /\ \/ \E vals \in [1..n -> QbValues] : read_find = Ok(SqlRow(vals))
             \/ \E kind \in SqlErrors : read_find = Err(SqlError(kind))
    /\ read_pc = "new"
    /\ read_out = None
    /\ read_related = None

GetSingleRecord ==
    /\ read_pc = "new"
    /\ read_out' = Some(get_single_record(read_find, read_selected))
    /\ read_pc' = "returned"
    /\ UNCHANGED <<read_selected, read_find, read_related, handler_vars, doc_vars, san_vars,
                   schema_vars, query_vars, graph_vars>>

ReadNext == GetSingleRecord

SpecRead == ReadInit /\ [][ReadNext]_vars

(***************************************************************************)
(* read.rs: get_related_records, with the two strategies of                *)
(* many_related_records                                                    *)
(***************************************************************************)
PARENT_MODEL_ALIAS == "__ParentModel__"

ROW_NUMBER_ALIAS == "rn"

\* quaint::ast::Column, and Column::alias
AstColumn(name) == [name |-> name, alias |-> None]

alias(col, name) == [col EXCEPT !.alias = Some(name)]

\* AsColumn::as_column of a scalar field
as_column(field) == AstColumn(field.db_name)

\* SelectedFields::columns
selected_columns(selected_fields) ==
    [i \in 1..Len(selected_fields) |-> as_column(selected_fields[i])]

\* a select of columns from a table; the other clauses as SelectFrom has them
SelectColumns(table, columns) ==
    [t |-> "Select", table |-> table, columns |-> columns, conditions |-> None,
     limit |-> None, offset |-> None, ordering |-> <<>>]

\* Select::column
column(select, col) == [select EXCEPT !.columns = Append(@, col)]

\* ManyRelatedRecordsBaseQuery::new
ManyRelatedRecordsBaseQuery_new(from_field, from_record_ids, query_arguments, columns) ==
    [from_field |-> from_field, from_record_ids |-> from_record_ids,
     query |-> SelectColumns(from_field.related_model, columns),
     columns |-> columns,
     order_directions |-> [primary_order_by |-> query_arguments.order_by],
     condition |-> NoCondition, cursor |-> NoCondition,
     window_limits |-> <<query_arguments.skip + 1,
                         query_arguments.skip + query_arguments.limit>>,
     skip_and_limit |-> SkipAndLimit(query_arguments.skip, Some(query_arguments.limit))]

\* ManyRelatedRecordsQueryBuilder::without_pagination
without_pagination(base) ==
    so_that(base.query,
            And(conditions(<<relation_column(base.from_field)>>, base.from_record_ids),
                base.condition))

\* ManyRelatedRecordsWithRowNumber::with_pagination
row_number_with_pagination(base) ==
    LET columns == <<relation_column(base.from_field)>>
        tree == And(And(conditions(columns, base.from_record_ids), base.condition),
                    base.cursor)
        base_query == so_that(base.query, tree)
        primary_order_by == base.order_directions.primary_order_by
        ordered == IF primary_order_by.some
                      /\ \A i \in 1..Len(base.columns) :
                            base.columns[i] # as_column(primary_order_by.v)
                   THEN column(base_query, as_column(primary_order_by.v))
                   ELSE base_query
        with_row_numbers ==
            SelectColumns(ordered, Append(ordered.columns, AstColumn(ROW_NUMBER_ALIAS)))
    IN  [SelectColumns(with_row_numbers, with_row_numbers.columns) EXCEPT
            !.conditions = Some([t |-> "Between", column |-> ROW_NUMBER_ALIAS,
                                 from |-> base.window_limits[1],
                                 to |-> base.window_limits[2]])]

\* T::uses_row_number
uses_row_number(T) == T = "ManyRelatedRecordsWithRowNumber"

\* T::with_pagination
T_with_pagination(T, base) ==
    IF uses_row_number(T) THEN row_number_with_pagination(base) ELSE with_pagination(base)

\* the columns of the rows a query returns
OutputColumns(query) ==
    IF query.t = "Union"
    THEN IF query.selects = <<>> THEN <<>> ELSE query.selects[1].columns
    ELSE query.columns

\* conn.filter: a row of the values of the query's columns for every related
\* record of the table, or the error of the connection
conn_filter(table, query) ==
    IF table.error.some THEN Err(SqlError(table.error.v))
    ELSE IF query.t = "Union" /\ query.selects = <<>> THEN Ok(<<>>)
    ELSE
        LET columns == OutputColumns(query)
        IN  Ok([r \in 1..Len(table.records) |->
                   SqlRow([c \in 1..Len(columns) |->
                       CASE columns[c].alias = Some(RELATED_MODEL_ALIAS) ->
                               table.records[r].related_id
                         [] columns[c].alias = Some(PARENT_MODEL_ALIAS) ->
                               table.records[r].parent_id
                         [] columns[c].name = ROW_NUMBER_ALIAS -> table.records[r].rn
                         [] OTHER -> table.records[r].values[columns[c].name]])])

\* the closure get_related_records maps over the rows, for a relation whose
\* linking fields are one scalar field
related_record(T, from_field, is_with_pagination, row) ==
    LET numbered == IF is_with_pagination /\ uses_row_number(T)
                    THEN pop(row.values).rest ELSE row.values
        val == pop(numbered)
        shortened == pop(val.rest).rest
    IN  IF ~val.popped.some THEN Err(SqlError("ColumnDoesNotExist"))
        ELSE Ok([Record_from(SqlRow(shortened)) EXCEPT
                    !.values = Append(@, val.popped.v),
                    !.parent_id = Some(RecordIdentifier(
                                      <<<<from_field.linking_field, val.popped.v>>>>))])

ManyRecords(records, field_names) == [records |-> records, field_names |-> field_names]

\* get_related_records::<T>, of the table conn.filter reads
get_related_records(T, table, from_field, from_record_ids, query_arguments, selected_fields) ==
    LET field_names == selected_db_names(selected_fields)
        is_with_pagination == query_arguments.is_with_pagination
        can_skip_joins == from_field.relation_is_inlined_in_child /\ ~is_with_pagination
        columns == selected_columns(selected_fields)
                       \o <<alias(AstColumn(from_field.opposite_column), RELATED_MODEL_ALIAS)>>
                       \o <<alias(AstColumn(relation_column(from_field)), PARENT_MODEL_ALIAS)>>
        query ==
            IF can_skip_joins
            THEN so_that(SelectColumns(from_field.related_model, columns),
                         conditions(<<relation_column(from_field)>>, from_record_ids))
            ELSE LET base == ManyRelatedRecordsBaseQuery_new(from_field, from_record_ids,
                                                             query_arguments, columns)
                 IN  IF is_with_pagination THEN T_with_pagination(T, base)
                     ELSE without_pagination(base)
        filtered == conn_filter(table, query)
    IN  IF filtered.tag = "Err" THEN filtered
        ELSE LET records == [i \in 1..Len(filtered.v) |->
                                related_record(T, from_field, is_with_pagination,
                                               filtered.v[i])]
             IN  IF \E i \in 1..Len(records) : records[i].tag = "Err"
                 THEN records[CHOOSE i \in 1..Len(records) :
                                  /\ records[i].tag = "Err"
                                  /\ \A j \in 1..(i - 1) : records[j].tag = "Ok"]
                 ELSE Ok(ManyRecords([i \in 1..Len(records) |-> records[i].v],
                                     field_names))

(***************************************************************************)
(* Related-records reads, for both strategies and every ordering           *)
(***************************************************************************)
\* the relation field the related records are read from
RelatedFromField(inlined_in_child) ==
    [name |-> "posts", column |-> "user", opposite_column |-> "id",
     linking_field |-> "id", related_model |-> "Post",
     relation_is_inlined_in_child |-> inlined_in_child]

\* the k-th related record of the table: the values of its fields, the key of
\* the related model, the parent it belongs to and its row number
RelatedRow(k, parent) ==
    [values |-> [n \in {"id", "email_column", "name"} |->
                    CASE n = "id" -> 10 + k
                      [] n = "email_column" -> 20 + k
                      [] OTHER -> 30 + k],
     related_id |-> 10 + k, parent_id |-> parent, rn |-> 40 + k]

RelatedInit ==
    /\ HandlerIdle
    /\ DocIdle
    /\ SanIdle
    /\ SchemaIdle
    /\ QueryIdle
    /\ GraphIdle
    /\ \E n \in 0..MaxSelected : \E fields \in [1..n -> SelectableFields] :
          read_selected = fields
    /\ \E T \in {"ManyRelatedRecordsWithRowNumber", "ManyRelatedRecordsWithUnionAll"} :
       \E paginated \in BOOLEAN : \E inlined_in_child \in BOOLEAN :
       \E ordering \in {None} \cup {Some(f) : f \in SelectableFields} :
       \E n \in 0..MaxRelatedRows : \E parents \in [1..n -> QbValues] :
       \E error \in {None, Some("ConnectionError")} :
          read_related =
              Some([T |-> T,
                    from_field |-> RelatedFromField(inlined_in_child),
                    from_record_ids |-> <<RecordIdentifier(<<<<"id", 1>>>>),
                                          RecordIdentifier(<<<<"id", 2>>>>)>>,
                    query_arguments |-> [is_with_pagination |-> paginated,
                                         order_by |-> ordering, skip |-> 0,
                                         limit |-> MaxRelatedRows],
                    table |-> [records |-> [k \in 1..n |-> RelatedRow(k, parents[k])],
                               error |-> error]])
    /\ read_find = None
    /\ read_pc = "new"
    /\ read_out = None

GetRelatedRecords ==
    /\ read_pc = "new"
    /\ read_out' = Some(get_related_records(read_related.v.T, read_related.v.table,
                            read_related.v.from_field, read_related.v.from_record_ids,
                            read_related.v.query_arguments, read_selected))
    /\ read_pc' = "returned"
    /\ UNCHANGED <<read_selected, read_find, read_related, handler_vars, doc_vars, san_vars,
                   schema_vars, query_vars, graph_vars>>

RelatedNext == GetRelatedRecords

SpecRelated == RelatedInit /\ [][RelatedNext]_vars

(***************************************************************************)
(* Nested updates: the graph connect_nested_update builds, and the         *)
(* interpreter running one of its edges                                    *)
(***************************************************************************)
\* the where arguments of a nested update
WhereMaps ==
    {<<<<"id", PSingle(1)>>>>, <<<<"id", PSingle(2)>>>>, <<<<"id", PSingle(Null)>>>>,
     <<<<"email", PSingle(1)>>, <<"id", PSingle(1)>>>>}

\* the data of a nested update
DataValues == {PMap(<<<<"title", PSingle(1)>>>>), PSingle(1)}

\* one nested update of a to-many relation
NestedUpdates ==
    {PMap(<<<<"data", d>>, <<"where", PMap(w)>>>>) : d \in DataValues, w \in WhereMaps}
        \cup {PMap(<<<<"data", PMap(<<>>)>>>>), PSingle(1)}

\* the relation field of the parent model
BlogPosts(list) ==
    [name |-> "posts", is_list |-> list, model |-> "Blog", related_model |-> "Post"]

\* the ids a read of children can yield
ChildIds == {RecordIdentifier(<<<<"id", v>>>>) : v \in 1..2}

GraphInit ==
    /\ HandlerIdle
    /\ DocIdle
    /\ SanIdle
    /\ SchemaIdle
    /\ QueryIdle
    /\ ReadIdle
    /\ \/ \E value \in DataValues :
             nested_input = Some([parent_relation_field |-> BlogPosts(FALSE),
                                  value |-> value, child_model |-> "Post"])
       \/ \E value \in NestedUpdates :
             nested_input = Some([parent_relation_field |-> BlogPosts(TRUE),
                                  value |-> value, child_model |-> "Post"])
       \/ \E n \in 0..MaxValues : \E l \in [1..n -> NestedUpdates] :
             nested_input = Some([parent_relation_field |-> BlogPosts(TRUE),
                                  value |-> PList(l), child_model |-> "Post"])
    /\ graph = [nodes |-> <<CreateRecord("Blog", <<>>)>>, edges |-> <<>>]
    /\ graph_pc = "new"
    /\ parent_ids = <<>>
    /\ transformed = None
    /\ execution = NotRun

\* the builder connects the nested update to the parent node
ConnectNestedUpdate ==
    /\ graph_pc = "new"
    /\ LET built == connect_nested_update(graph, 1, nested_input.v.parent_relation_field,
                                          nested_input.v.value, nested_input.v.child_model)
       IN  /\ graph' = built.graph
           /\ graph_pc' = CASE built.result.tag = "Ok" -> "built"
                            [] built.result.tag = "Err" -> "failed"
                            [] OTHER -> "panicked"
    /\ UNCHANGED <<execution, nested_input, parent_ids, transformed, handler_vars, doc_vars, san_vars,
                   schema_vars, query_vars, read_vars>>

\* the interpreter hands the ids of an edge's parent to the edge's transform
RunTransform ==
    /\ graph_pc = "built"
    /\ \E e \in 1..Len(graph.edges) : \E n \in 0..MaxIds : \E ids \in [1..n -> ChildIds] :
          LET edge == graph.edges[e]
              ran == apply_transform(edge.dependency, graph.nodes[edge.to], ids)
          IN  /\ transformed' = Some([edge |-> e, node |-> graph.nodes[edge.to],
                                      given |-> ids, result |-> ran.result])
              /\ parent_ids' = ran.parent_ids
    /\ graph_pc' = "transformed"
    /\ UNCHANGED <<execution, nested_input, graph, handler_vars, doc_vars, san_vars,
                   schema_vars, query_vars, read_vars>>

\* the interpreter runs the child node the transform returned
RunChild ==
    /\ graph_pc = "transformed"
    /\ transformed.v.result.tag = "Ok"
    /\ graph' = [graph EXCEPT !.nodes[graph.edges[transformed.v.edge].to] =
                                  transformed.v.result.v]
    /\ graph_pc' = "ran"
    /\ UNCHANGED <<execution, nested_input, parent_ids, transformed, handler_vars, doc_vars, san_vars,
                   schema_vars, query_vars, read_vars>>

\* the interpreter gives up the branch whose transform failed
AbortBranch ==
    /\ graph_pc = "transformed"
    /\ transformed.v.result.tag = "Err"
    /\ graph_pc' = "aborted"
    /\ UNCHANGED <<execution, nested_input, graph, parent_ids, transformed, handler_vars, doc_vars,
                   san_vars, schema_vars, query_vars, read_vars>>

GraphNext ==
    \/ ConnectNestedUpdate
    \/ RunTransform
    \/ RunChild
    \/ AbortBranch

SpecGraph == GraphInit /\ [][GraphNext]_vars

(***************************************************************************)
(* The graphs of nested upserts and of the relation checks, built and then *)
(* run by the interpreter in any order the edges allow                     *)
(***************************************************************************)
\* the relation field of the parent model, with what the builders ask of it
Posts(list, many_to_many, inlined_in_parent, child_side_required) ==
    [name |-> "posts", is_list |-> list, model |-> "Blog", related_model |-> "Post",
     is_many_to_many |-> many_to_many,
     relation_is_inlined_in_parent |-> inlined_in_parent,
     related_field |-> [name |-> "blog", is_required |-> child_side_required]]

\* many-to-many, one-to-many, and one-to-one inlined on either side
UpsertFields ==
    {Posts(TRUE, TRUE, FALSE, FALSE), Posts(TRUE, FALSE, FALSE, FALSE),
     Posts(FALSE, FALSE, TRUE, FALSE), Posts(FALSE, FALSE, FALSE, FALSE)}

\* one nested upsert: well-formed, or lacking or spoiling one of its arguments
NestedUpserts ==
    {PMap(<<<<"create", PMap(<<<<"title", PSingle(1)>>>>)>>,
            <<"update", PMap(<<<<"title", PSingle(2)>>>>)>>,
            <<"where", PMap(w)>>>>) : w \in WhereMaps \cup {<<>>}}
        \cup {PMap(<<<<"create", PMap(<<>>)>>, <<"update", PMap(<<>>)>>>>),
              PMap(<<<<"create", PMap(<<>>)>>, <<"where", PMap(<<<<"id", PSingle(1)>>>>)>>>>),
              PMap(<<<<"update", PMap(<<>>)>>, <<"where", PMap(<<<<"id", PSingle(1)>>>>)>>>>),
              PMap(<<<<"create", PSingle(1)>>, <<"update", PMap(<<>>)>>,
                     <<"where", PMap(<<<<"id", PSingle(1)>>>>)>>>>),
              PSingle(1)}

\* the first n ids of the child model
FirstIds(n) == [i \in 1..n |-> RecordIdentifier(<<<<"id", i>>>>)]

\* the id a create gives the record of a model
NewId(model) == IF model = "Blog" THEN 1 ELSE 2

\* the ids a node can return when it has run
Yields(g, n) ==
    LET node == g.nodes[n]
    IN  CASE node.kind = "RelatedRecordsQuery" -> {FirstIds(k) : k \in 0..MaxIds}
          [] node.kind = "ManyRecordsQuery" -> {FirstIds(k) : k \in 1..MaxIds}
          [] node.kind = "CreateRecord" ->
                {<<RecordIdentifier(<<<<"id", NewId(node.model)>>>>)>>}
          [] OTHER -> {<<>>}

\* the edges into a node, in the order they were created
Incoming(g, n) ==
    LET pick[i \in 0..Len(g.edges)] ==
            IF i = 0 THEN <<>>
            ELSE IF g.edges[i].to = n THEN Append(pick[i - 1], i) ELSE pick[i - 1]
    IN  pick[Len(g.edges)]

\* an edge lets its child run: the parent is done, and took the edge's branch
Satisfied(g, e) ==
    /\ execution.state[g.edges[e].from] = "done"
    /\ g.edges[e].dependency.kind = "Then" => g.nodes[g.edges[e].from].predicate
    /\ g.edges[e].dependency.kind = "Else" => ~g.nodes[g.edges[e].from].predicate

\* an edge keeps its child from ever running
Closed(g, e) ==
    \/ execution.state[g.edges[e].from] = "skipped"
    \/ /\ execution.state[g.edges[e].from] = "done"
       /\ \/ g.edges[e].dependency.kind = "Then" /\ ~g.nodes[g.edges[e].from].predicate
          \/ g.edges[e].dependency.kind = "Else" /\ g.nodes[g.edges[e].from].predicate

\* the node after the transforms of its ParentIds edges, or the first error
RECURSIVE transform_node(_, _, _)
transform_node(g, node, es) ==
    IF es = <<>> THEN Ok(node)
    ELSE
        LET edge == g.edges[Head(es)]
        IN  IF edge.dependency.kind # "ParentIds" THEN transform_node(g, node, Tail(es))
            ELSE
                LET t == apply_transform(edge.dependency, node, execution.ids[edge.from])
                IN  IF t.result.tag # "Ok" THEN t.result
                    ELSE transform_node(g, t.result.v, Tail(es))

ManyRecordsQuery(model) == [kind |-> "ManyRecordsQuery", model |-> model]

DeleteRecord(model) == [kind |-> "DeleteRecord", model |-> model]

\* the graph of a delete before its checks: the read of the ids, and the delete
DeleteGraph ==
    [nodes |-> <<ManyRecordsQuery("Blog"), DeleteRecord("Blog")>>,
     edges |-> <<[from |-> 1, to |-> 2,
                  dependency |-> ParentIds(primary_identifier("Blog"), "delete_ids")]>>]

\* the i-th field that requires the deleted model: its model's required
\* reference, and the field of the deleted model on the other side
RequiringField(i) ==
    LET requiring == IF i = 1 THEN "Post" ELSE IF i = 2 THEN "Comment" ELSE "Like"
    IN  [name |-> "blog", model |-> requiring, is_required |-> TRUE, is_list |-> FALSE,
         related_field |-> [name |-> requiring, model |-> "Blog",
                            related_model |-> requiring]]

RunInit ==
    /\ HandlerIdle
    /\ DocIdle
    /\ SanIdle
    /\ SchemaIdle
    /\ QueryIdle
    /\ ReadIdle
    /\ \/ /\ \E field \in UpsertFields :
                \/ \E value \in NestedUpserts :
                      nested_input = Some([builder |-> "upsert",
                                           parent_relation_field |-> field, value |-> value])
                \/ \E n \in 0..MaxUpserts : \E l \in [1..n -> NestedUpserts] :
                      nested_input = Some([builder |-> "upsert",
                                           parent_relation_field |-> field,
                                           value |-> PList(l)])
          /\ graph = [nodes |-> <<CreateRecord("Blog", <<>>)>>, edges |-> <<>>]
       \/ /\ \E inlined_in_parent \in BOOLEAN : \E child_side_required \in BOOLEAN :
                nested_input = Some([builder |-> "existing_checks",
                                     parent_relation_field |->
                                         Posts(FALSE, FALSE, inlined_in_parent,
                                               child_side_required)])
          /\ graph = [nodes |-> <<ManyRecordsQuery("Blog")>>, edges |-> <<>>]
       \/ /\ \E n \in 0..MaxRelations :
                nested_input = Some([builder |-> "deletion_checks",
                                     relation_fields |-> [i \in 1..n |-> RequiringField(i)]])
          /\ graph = DeleteGraph
    /\ graph_pc = "new"
    /\ parent_ids = <<>>
    /\ transformed = None
    /\ execution = NotRun

\* the interpreter starts on the graph a builder returned
Waiting(g) ==
    [state |-> [n \in 1..Len(g.nodes) |-> "waiting"],
     ids |-> [n \in 1..Len(g.nodes) |-> <<>>],
     error |-> None]

\* where the builder's answer leaves the request
Answered(result) ==
    CASE result.tag = "Ok" -> "built"
      [] result.tag = "Err" -> "failed"
      [] OTHER -> "panicked"

\* the builder connects the nested upsert to the parent node
ConnectNestedUpsert ==
    /\ graph_pc = "new"
    /\ nested_input.v.builder = "upsert"
    /\ LET built == connect_nested_upsert(graph, 1, nested_input.v.parent_relation_field,
                                          nested_input.v.value)
       IN  /\ graph' = built.graph
           /\ graph_pc' = Answered(built.result)
           /\ execution' = Waiting(built.graph)
    /\ UNCHANGED <<nested_input, parent_ids, transformed, handler_vars, doc_vars, san_vars,
                   schema_vars, query_vars, read_vars>>

\* the checks of an existing child are inserted after the read of the parent
InsertExistingChecks ==
    /\ graph_pc = "new"
    /\ nested_input.v.builder = "existing_checks"
    /\ LET built == insert_existing_1to1_related_model_checks(
                        graph, 1, nested_input.v.parent_relation_field)
       IN  /\ graph' = built.graph
           /\ graph_pc' = Answered(built.result)
           /\ execution' = Waiting(built.graph)
    /\ UNCHANGED <<nested_input, parent_ids, transformed, handler_vars, doc_vars, san_vars,
                   schema_vars, query_vars, read_vars>>

\* the deletion checks are inserted between the read of the ids and the delete
InsertDeletionChecks ==
    /\ graph_pc = "new"
    /\ nested_input.v.builder = "deletion_checks"
    /\ LET built == insert_deletion_checks(graph, nested_input.v.relation_fields, 1, 2)
       IN  /\ graph' = built.graph
           /\ graph_pc' = Answered(built.result)
           /\ execution' = Waiting(built.graph)
    /\ UNCHANGED <<nested_input, parent_ids, transformed, handler_vars, doc_vars, san_vars,
                   schema_vars, query_vars, read_vars>>

\* the interpreter runs a node whose parents are done: it applies the transforms
\* of the node's ParentIds edges to the parents' ids, then runs what they return
RunNode ==
    /\ graph_pc = "built"
    /\ \E n \in 1..Len(graph.nodes) :
          LET es == Incoming(graph, n)
              node == transform_node(graph, graph.nodes[n], es)
          IN  /\ execution.state[n] = "waiting"
              /\ \A i \in 1..Len(es) : Satisfied(graph, es[i])
              /\ node.tag = "Ok"
              /\ graph' = [graph EXCEPT !.nodes[n] = node.v]
              /\ \E ids \in Yields(graph', n) :
                    execution' = [execution EXCEPT !.state[n] = "done", !.ids[n] = ids]
    /\ UNCHANGED <<graph_pc, nested_input, parent_ids, transformed, handler_vars, doc_vars,
                   san_vars, schema_vars, query_vars, read_vars>>

\* a transform fails: the node does not run and the error ends the execution
FailNode ==
    /\ graph_pc = "built"
    /\ \E n \in 1..Len(graph.nodes) :
          LET es == Incoming(graph, n)
              node == transform_node(graph, graph.nodes[n], es)
          IN  /\ execution.state[n] = "waiting"
              /\ \A i \in 1..Len(es) : Satisfied(graph, es[i])
              /\ node.tag # "Ok"
              /\ execution' = [execution EXCEPT
                                   !.error = Some(IF node.tag = "Err" THEN node.e ELSE "panic")]
    /\ graph_pc' = "execution failed"
    /\ UNCHANGED <<graph, nested_input, parent_ids, transformed, handler_vars, doc_vars,
                   san_vars, schema_vars, query_vars, read_vars>>

\* a node on a branch that was not taken is passed over
SkipNode ==
    /\ graph_pc = "built"
    /\ \E n \in 1..Len(graph.nodes) :
          LET es == Incoming(graph, n)
          IN  /\ execution.state[n] = "waiting"
              /\ \E i \in 1..Len(es) : Closed(graph, es[i])
              /\ execution' = [execution EXCEPT !.state[n] = "skipped"]
    /\ UNCHANGED <<graph, graph_pc, nested_input, parent_ids, transformed, handler_vars,
                   doc_vars, san_vars, schema_vars, query_vars, read_vars>>

RunNext ==
    \/ ConnectNestedUpsert
    \/ InsertExistingChecks
    \/ InsertDeletionChecks
    \/ RunNode
    \/ FailNode
    \/ SkipNode

SpecRun == RunInit /\ [][RunNext]_vars

(***************************************************************************)
(* The builders applied one after another to the graph of a delete         *)
(***************************************************************************)
\* a well-formed nested update, and a well-formed nested upsert
GoodUpdate ==
    PMap(<<<<"data", PMap(<<<<"title", PSingle(1)>>>>)>>,
           <<"where", PMap(<<<<"id", PSingle(1)>>>>)>>>>)

GoodUpsert ==
    PMap(<<<<"create", PMap(<<<<"title", PSingle(1)>>>>)>>,
           <<"update", PMap(<<<<"title", PSingle(2)>>>>)>>,
           <<"where", PMap(<<<<"id", PSingle(1)>>>>)>>>>)

\* the nodes reached from a set of nodes by one edge or more
RECURSIVE Descendants(_, _, _)
Descendants(g, frontier, seen) ==
    LET next == {g.edges[e].to : e \in {e \in 1..Len(g.edges) : g.edges[e].from \in frontier}}
    IN  IF next \subseteq seen THEN seen
        ELSE Descendants(g, next \ seen, seen \cup next)

\* there is a path of one edge or more from a node to another
Reaches(g, a, b) == b \in Descendants(g, {a}, {})

BuildInit ==
    /\ HandlerIdle
    /\ DocIdle
    /\ SanIdle
    /\ SchemaIdle
    /\ QueryIdle
    /\ ReadIdle
    /\ nested_input = Some([builder |-> "none"])
    /\ graph = DeleteGraph
    /\ graph_pc = "building"
    /\ parent_ids = <<>>
    /\ transformed = None
    /\ execution = NotRun

\* a builder is applied to the graph, as long as the graph is small
Applied(builder, built) ==
    /\ graph_pc = "building"
    /\ Len(graph.nodes) < MaxNodes
    /\ built.result.tag = "Ok"
    /\ graph' = built.graph
    /\ nested_input' = Some([builder |-> builder])
    /\ UNCHANGED <<graph_pc, parent_ids, transformed, execution, handler_vars, doc_vars,
                   san_vars, schema_vars, query_vars, read_vars>>

\* the nodes a builder can be given as the parent: the queries
QueryNodes(g) == {n \in 1..Len(g.nodes) : g.nodes[n].kind \notin {"If", "Empty"}}

ApplyNestedUpdate ==
    \E parent \in QueryNodes(graph) : \E n \in 1..MaxUpserts :
        Applied("update", connect_nested_update(graph, parent, Posts(TRUE, FALSE, FALSE, FALSE),
                              PList([i \in 1..n |-> GoodUpdate]), "Post"))

ApplyNestedUpdateMany ==
    \E parent \in QueryNodes(graph) : \E n \in 1..MaxUpserts :
        Applied("update_many",
                connect_nested_update_many(graph, parent, Posts(TRUE, FALSE, FALSE, FALSE),
                    PList([i \in 1..n |-> GoodUpdate]), "Post"))

ApplyNestedUpsert ==
    \E parent \in QueryNodes(graph) : \E n \in 1..MaxUpserts :
        \E field \in UpsertFields \ {Posts(FALSE, FALSE, FALSE, FALSE)} :
            Applied("upsert", connect_nested_upsert(graph, parent, field,
                                  PList([i \in 1..n |-> GoodUpsert])))

ApplyExistingChecks ==
    \E parent \in QueryNodes(graph) :
        Applied("existing_checks",
                insert_existing_1to1_related_model_checks(graph, parent,
                    Posts(FALSE, FALSE, FALSE, FALSE)))

ApplyDeletionChecks ==
    \E parent \in QueryNodes(graph) : \E child \in QueryNodes(graph) :
        \E n \in 0..MaxRelations :
            /\ child # parent
            /\ ~Reaches(graph, child, parent)
            /\ Applied("deletion_checks",
                       insert_deletion_checks(graph, [i \in 1..n |-> RequiringField(i)],
                                              parent, child))

BuildNext ==
    \/ ApplyNestedUpdate
    \/ ApplyNestedUpdateMany
    \/ ApplyNestedUpsert
    \/ ApplyExistingChecks
    \/ ApplyDeletionChecks

SpecBuild == BuildInit /\ [][BuildNext]_vars

(***************************************************************************)
(* Properties of the request handler                                       *)
(***************************************************************************)
\* the operation a slot's response was produced for
ProducedFor(r) ==
    IF r.responses.data # <<>> THEN r.responses.data[1] ELSE r.responses.errors[1].op

BatchReturned ==
    /\ body.tag = "Multi"
    /\ pc = "responded"
    /\ response.tag = "Multi"

\* C1: when handle_batch returns, whatever the order in which the spawned tasks
\* completed, the Multi response holds one response per operation of the batch
\* and the response at position i is the output of the task spawned for the
\* operation at position i, produced for that operation.
C1_BatchOrderPreserved ==
    BatchReturned =>
        /\ Len(response.responses) = Len(body.batch)
        /\ \A i \in 1..Len(body.batch) :
              /\ handles[i] = Ok(response.responses[i])
              /\ ProducedFor(response.responses[i]) = body.batch[i].query.op

\* three tasks finish in an order other than the order of the batch, for
\* operations that differ, and the batch response is returned
C1_Witness ==
    /\ BatchReturned
    /\ Len(body.batch) = 3
    /\ completed = <<3, 1, 2>>
    /\ body.batch[1] # body.batch[2]
    /\ body.batch[2] # body.batch[3]

\* every task of a dispatched batch has finished and join_all has resolved
BatchJoined ==
    /\ body.tag = "Multi"
    /\ pc \in {"responded", "panicked"}
    /\ Len(handles) = Len(body.batch)
    /\ handles # <<>>

\* the response of one operation, given what the executor does for it alone
ResponseAlone(op, outcome) ==
    CASE outcome = "data" -> PrismaSingle(Responses(<<op>>, <<>>))
      [] outcome = "error" -> PrismaSingle(Responses(<<>>, <<[kind |-> "CoreError", op |-> op]>>))
      [] outcome = "panic" -> PrismaSingle(Responses(<<>>, <<[kind |-> "Panic", op |-> op]>>))

\* C2: a panic of the executor in one operation of a dispatched batch is caught
\* in that operation's task: the batch response is still returned, the slot of
\* a panicking operation holds an error response and no data, and every other
\* slot holds the response its operation gets when handled alone.
C2_PanicContained ==
    BatchJoined =>
        /\ pc = "responded"
        /\ response.tag = "Multi"
        /\ Len(response.responses) = Len(body.batch)
        /\ \A i \in 1..Len(body.batch) :
              /\ executor[i] = "panic" =>
                    /\ response.responses[i].responses.errors # <<>>
                    /\ response.responses[i].responses.data = <<>>
              /\ response.responses[i] = ResponseAlone(body.batch[i].query.op, executor[i])

\* a batch in which one operation panics between two that do not
C2_Witness ==
    /\ BatchJoined
    /\ pc = "responded"
    /\ Len(body.batch) = 3
    /\ executor = <<"data", "panic", "error">>

\* C3 (the claim as stated): every Multi request is answered by a list with one
\* response per batch entry, in batch order; an entry that fails, a query text
\* that does not parse included, puts errors in its own slot only.
C3_SlotsIndependent ==
    (body.tag = "Multi" /\ pc \in {"responded", "panicked"}) =>
        /\ response.tag = "Multi"
        /\ Len(response.responses) = Len(body.batch)
        /\ \A i \in 1..Len(body.batch) :
              IF body.batch[i].query.valid
              THEN response.responses[i]
                       = ResponseAlone(body.batch[i].query.op, executor[i])
              ELSE /\ response.responses[i].responses.errors # <<>>
                   /\ response.responses[i].responses.data = <<>>

(***************************************************************************)
(* Properties of the query document IR                                     *)
(***************************************************************************)
\* C4 (the claim as stated): compact returns a value for every batch: the
\* Compact document of the findMany replacement when can_compact holds, the
\* batch itself otherwise.
C4_CompactReturns ==
    doc_pc = "compact" =>
        /\ ~IsPanic(doc_result.v)
        /\ can_compact(batch) =>
              doc_result.v = BatchCompact(CompactedDocument_from(batch.ops))
        /\ ~can_compact(batch) => doc_result.v = batch

AllFindOne(ops) ==
    \A i \in 1..Len(ops) :
        /\ ops[i].kind = "Read"
        /\ Len(ops[i].sel.name) >= 7
        /\ \A k \in 1..7 : ops[i].sel.name[k] = FIND_ONE[k]

\* C5: can_compact is true exactly for a Multi batch of at least one operation
\* in which every operation is a Read of a findOne selection and all operations
\* have the same selection name and equal nested selections; it is false for
\* Compact, for the empty batch and when an operation is a Write.
C5_CanCompact ==
    doc_pc = "can_compact" =>
        /\ doc_result.v =
              ( /\ batch.tag = "Multi"
                /\ Len(batch.ops) >= 1
                /\ AllFindOne(batch.ops)
                /\ \A i, j \in 1..Len(batch.ops) :
                      /\ batch.ops[i].sel.name = batch.ops[j].sel.name
                      /\ batch.ops[i].sel.nested_selections
                            = batch.ops[j].sel.nested_selections )
        /\ batch.tag = "Compact" => doc_result.v = FALSE
        /\ (batch.tag = "Multi" /\ batch.ops = <<>>) => doc_result.v = FALSE
        /\ (batch.tag = "Multi" /\ \E i \in 1..Len(batch.ops) : batch.ops[i].kind = "Write")
              => doc_result.v = FALSE

\* can_compact accepts two findOne operations that differ only in their where
C5_Witness ==
    /\ doc_pc = "can_compact"
    /\ doc_result.v = TRUE
    /\ Len(batch.ops) = 2
    /\ batch.ops[1] # batch.ops[2]

WhereKey(op) == op.sel.arguments[1][2].v[1][1]
WhereValue(op) == op.sel.arguments[1][2].v[1][2]

\* C6 (the claim as stated): for a batch can_compact accepts, the compacted
\* selection is a findMany whose only argument is where = {key_in: [v_1..v_N]}
\* in input order, key being the key every operation looks up; its nested
\* selections equal each input's, and arguments[i] is the where of operation i.
C6_CompactionEquivalence ==
    doc_pc = "from" =>
        LET ops == batch.ops
            r == doc_result.v
        IN  /\ ~IsPanic(r)
            /\ r.operation.kind = "Read"
            /\ r.operation.sel.name
                  = FIND_MANY \o SubSeq(ops[1].sel.name, 8, Len(ops[1].sel.name))
            /\ \E key \in {WhereKey(ops[i]) : i \in 1..Len(ops)} :
                  /\ \A i \in 1..Len(ops) : WhereKey(ops[i]) = key
                  /\ r.operation.sel.arguments =
                        << <<"where", QObject(<< <<key \o "_in",
                              QList([i \in 1..Len(ops) |-> WhereValue(ops[i])])>> >>)>> >>
            /\ \A i \in 1..Len(ops) :
                  /\ r.operation.sel.nested_selections = ops[i].sel.nested_selections
                  /\ r.arguments[i] = ops[i].sel.arguments[1][2]

RECURSIVE Nth(_, _)
\* the k-th smallest element of a set of numbers
Nth(S, k) ==
    LET m == CHOOSE x \in S : \A y \in S : x <= y
    IN  IF k = 1 THEN m ELSE Nth(S \ {m}, k - 1)

\* the positions of the nested selections that no earlier one shares a name with
FirstOccurrences(ns) ==
    {i \in 1..Len(ns) : \A j \in 1..(i - 1) : ns[j].name # ns[i].name}

\* C7: dedup_selections keeps, of the nested selections of each name, exactly
\* the first, in their original relative order, and leaves the kind, the name,
\* the alias and the arguments of the operation as they were.
C7_DedupStable ==
    doc_pc = "dedup_selections" =>
        LET ns == operation.sel.nested_selections
            out == doc_result.v
            keep == FirstOccurrences(ns)
        IN  /\ out.kind = operation.kind
            /\ out.sel.name = operation.sel.name
            /\ out.sel.alias = operation.sel.alias
            /\ out.sel.arguments = operation.sel.arguments
            /\ Len(out.sel.nested_selections) = Cardinality(keep)
            /\ \A k \in 1..Cardinality(keep) :
                  out.sel.nested_selections[k] = ns[Nth(keep, k)]

\* three nested selections of which the third repeats the name of the first
\* under another alias: the first and the second are kept
C7_Witness ==
    /\ doc_pc = "dedup_selections"
    /\ Len(operation.sel.nested_selections) = 3
    /\ operation.sel.nested_selections[1].name = operation.sel.nested_selections[3].name
    /\ operation.sel.nested_selections[1] # operation.sel.nested_selections[3]
    /\ operation.sel.nested_selections[2].name # operation.sel.nested_selections[1].name
    /\ doc_result.v.sel.nested_selections
          = SubSeq(operation.sel.nested_selections, 1, 2)

(***************************************************************************)
(* Properties of the sanitizer                                             *)
(***************************************************************************)
\* C8: sanitizing is idempotent: sanitize_name of the sanitized form of a name
\* returns that form, with database_name None.
C8_SanitizeIdempotent ==
    san_pc = "resanitized" => san_again.v = <<san_out.v[1], None>>

\* a name with a leading non-letter and a character to replace was
\* sanitized, and its sanitized form was sanitized again
C8_Witness ==
    /\ san_pc = "resanitized"
    /\ san_name = <<"2", "a", "!">>
    /\ san_out.v = <<<<"a", "_">>, Some(san_name)>>

\* the form [A-Za-z][_A-Za-z0-9]*
ValidIdentifier(n) ==
    /\ n # <<>>
    /\ n[1] \in LowerCase \cup UpperCase
    /\ \A i \in 1..Len(n) : n[i] \in LowerCase \cup UpperCase \cup DigitChars \cup {"_"}

\* the position of the first ASCII letter of n, Len(n) + 1 when it has none
FirstLetter(n) ==
    CHOOSE k \in 1..(Len(n) + 1) :
        /\ \A i \in 1..(k - 1) : n[i] \notin LowerCase \cup UpperCase
        /\ k <= Len(n) => n[k] \in LowerCase \cup UpperCase

\* the name with its leading non-letters stripped and every other character
\* outside [_A-Za-z0-9] replaced by an underscore
StrippedAndReplaced(n, out) ==
    LET k == FirstLetter(n)
    IN  /\ Len(out) = Len(n) - k + 1
        /\ \A i \in 1..Len(out) :
              out[i] = IF n[k + i - 1] \in LowerCase \cup UpperCase \cup DigitChars \cup {"_"}
                       THEN n[k + i - 1] ELSE "_"

\* C9 (the claim as stated): sanitize_name returns the name itself with
\* database_name None, or a name of the form [A-Za-z][_A-Za-z0-9]* with the
\* original as database_name; the returned name is the input stripped of its
\* leading non-letters with every other character outside [_A-Za-z0-9] replaced
\* by an underscore; "2user!name" gives "user_name".
C9_SanitizedIsIdentifier ==
    san_pc = "sanitized" =>
        /\ \/ san_out.v = <<san_name, None>>
           \/ /\ ValidIdentifier(san_out.v[1])
              /\ san_out.v[2] = Some(san_name)
        /\ StrippedAndReplaced(san_name, san_out.v[1])
        /\ san_name = ExampleName =>
              san_out.v = <<<<"u", "s", "e", "r", "_", "n", "a", "m", "e">>, Some(ExampleName)>>

HasLetter(n) == \E i \in 1..Len(n) : n[i] \in LowerCase \cup UpperCase

\* C9 (amended): sanitize_name returns the name itself with database_name None,
\* or, with the original as database_name, a name that has the form
\* [A-Za-z][_A-Za-z0-9]* when the original holds an ASCII letter and is empty
\* when it holds none; the returned name is the input stripped of its leading
\* non-letters with every other character outside [_A-Za-z0-9] replaced by an
\* underscore; "2user!name" gives "user_name".
C9_SanitizedIsIdentifierOrEmpty ==
    san_pc = "sanitized" =>
        /\ \/ san_out.v = <<san_name, None>>
           \/ /\ san_out.v[2] = Some(san_name)
              /\ IF HasLetter(san_name)
                 THEN ValidIdentifier(san_out.v[1])
                 ELSE san_out.v[1] = <<>>
        /\ StrippedAndReplaced(san_name, san_out.v[1])
        /\ san_name = ExampleName =>
              san_out.v = <<<<"u", "s", "e", "r", "_", "n", "a", "m", "e">>, Some(ExampleName)>>

\* a name without a letter was sanitized to the empty name
C9_Witness ==
    /\ san_pc = "sanitized"
    /\ san_name = <<"2", "!">>
    /\ san_out.v = <<<<>>, Some(san_name)>>

(***************************************************************************)
(* Properties of the schema calculator                                     *)
(***************************************************************************)
DatabaseName(field) ==
    IF field.database_name = None THEN field.name ELSE field.database_name.v

FieldNamed(model, name) ==
    CHOOSE f \in Range(model.fields) : f.name = name

\* C10: in every model table, the columns of the primary key are the database
\* names of the is_id fields of the model in field order, followed by those of
\* the fields the compound-id list names, in list order.
C10_PrimaryKeyColumns ==
    (schema_pc = "model_tables" /\ model_tables.v.tag = "Ok") =>
        \A t \in 1..Len(model_tables.v.v) :
            LET m == model_tables.v.v[t].model
                pk == model_tables.v.v[t].table.primary_key.v.columns
                singles == {i \in 1..Len(m.fields) : m.fields[i].is_id}
                listed == {k \in 1..Len(m.id_fields) :
                              \E f \in Range(m.fields) : f.name = m.id_fields[k]}
            IN  /\ m = datamodel.models[t]
                /\ Len(pk) = Cardinality(singles) + Cardinality(listed)
                /\ \A n \in 1..Cardinality(singles) :
                      pk[n] = DatabaseName(m.fields[Nth(singles, n)])
                /\ \A n \in 1..Cardinality(listed) :
                      pk[Cardinality(singles) + n]
                          = DatabaseName(FieldNamed(m, m.id_fields[Nth(listed, n)]))

\* a model whose second field is an @id stored under another name and whose
\* compound-id list names its first field: the key is the second, then the first
C10_Witness ==
    /\ schema_pc = "model_tables"
    /\ model_tables.v.tag = "Ok"
    /\ datamodel.models[1].id_fields = <<"a">>
    /\ model_tables.v.v[1].table.primary_key.v.columns = <<"col_b", "a">>

\* C11: the identifier fields of a model are its is_id fields followed by the
\* fields its compound-id list names, and no field is yielded more than once.
C11_IdFieldsOnce ==
    schema_pc = "id_fields" =>
        \A t \in 1..Len(datamodel.models) :
            LET m == datamodel.models[t]
                ids == identifier_fields.v[t]
            IN  /\ \A f \in Range(m.fields) :
                      (f.is_id \/ f.name \in Range(m.id_fields)) => f \in Range(ids)
                /\ Range(ids) \subseteq Range(m.fields)
                /\ \A i, j \in 1..Len(ids) : ids[i] = ids[j] => i = j

\* the schema calculate returned, when it returned one
Returned == schema_pc = "done" /\ schema.v.tag = "Ok"

TableNamed(name) == CHOOSE t \in Range(schema.v.v.tables) : t.name = name

InlineRelations == {i \in 1..Len(relations) : relations[i].manifestation.t = "Inline"}

\* the relation field of the model that holds the foreign key
OwningField(relation) ==
    IF relation.model_a.name = relation.manifestation.in_table_of_model
    THEN relation.field_a ELSE relation.field_b

RelatedModel(relation) ==
    IF relation.model_a.name = relation.manifestation.in_table_of_model
    THEN relation.model_b ELSE relation.model_a

\* the foreign keys a table holds to the table of a model
KeysTo(table, model) ==
    {k \in 1..Len(table.foreign_keys) :
        table.foreign_keys[k].referenced_table = DatabaseName(model)}

\* C12: the foreign key of every inline relation restricts deletion exactly
\* when the relation field of the owning model is required, and sets null
\* otherwise.
C12_OnDeleteByArity ==
    Returned =>
        \A i \in InlineRelations :
            LET r == relations[i]
                t == TableNamed(r.manifestation.in_table_of_model)
            IN  /\ KeysTo(t, RelatedModel(r)) # {}
                /\ \A k \in KeysTo(t, RelatedModel(r)) :
                      /\ t.foreign_keys[k].on_delete_action \in {"Restrict", "SetNull"}
                      /\ t.foreign_keys[k].on_delete_action = "Restrict"
                            <=> OwningField(r).arity = "Required"

\* an optional relation field, whose foreign key sets null on deletion
C12_Witness ==
    /\ Returned
    /\ InlineRelations = {1}
    /\ OwningField(relations[1]).arity = "Optional"
    /\ TableNamed("Post").foreign_keys[1].on_delete_action = "SetNull"

TableRelations == {i \in 1..Len(relations) : relations[i].manifestation.t = "Table"}

\* C13: the join table of every relation manifested as a table has no primary
\* key, two foreign keys that both cascade, and one index, which is unique, is
\* named after the table and covers the set of the columns of the table.
C13_JoinTable ==
    Returned =>
        \A i \in TableRelations :
            LET name == "_" \o relations[i].name
            IN  /\ \E t \in Range(schema.v.v.tables) : t.name = name
                /\ \A t \in Range(schema.v.v.tables) :
                      t.name = name =>
                          /\ t.primary_key = None
                          /\ Len(t.foreign_keys) = 2
                          /\ \A k \in 1..2 : t.foreign_keys[k].on_delete_action = "Cascade"
                          /\ Len(t.indices) = 1
                          /\ t.indices[1].tpe = "Unique"
                          /\ t.indices[1].name = name \o "_AB_unique"
                          /\ Range(t.indices[1].columns) = {c.name : c \in Range(t.columns)}

\* a join table between Post and a User with a compound id of two fields
C13_Witness ==
    /\ Returned
    /\ TableRelations = {1}
    /\ Len(relations[1].model_b.id_fields) = 2
    /\ column_names(TableNamed("_PostToUser").columns) = <<"A", "B_a", "B_col_b">>

OneToOneInline ==
    {i \in InlineRelations :
        relations[i].field_a.arity # "List" /\ relations[i].field_b.arity # "List"}

\* C14: for every one-to-one inline relation, whatever the number of fields it
\* references, the table that holds the foreign key has a unique index whose
\* columns are the columns of the foreign key.
C14_OneToOneUnique ==
    Returned =>
        \A i \in OneToOneInline :
            LET r == relations[i]
                t == TableNamed(r.manifestation.in_table_of_model)
            IN  \A k \in KeysTo(t, RelatedModel(r)) :
                    \E x \in 1..Len(t.indices) :
                        /\ t.indices[x].tpe = "Unique"
                        /\ t.indices[x].columns = t.foreign_keys[k].columns

\* the structural problems of a datamodel
UnknownIndexField ==
    \E m \in Range(datamodel.models) : \E x \in Range(m.indices) :
        \E n \in Range(x.fields) : \A f \in Range(m.fields) : f.name # n

UnknownReference ==
    \E i \in InlineRelations :
        \E n \in Range(relations[i].manifestation.referenced_fields) :
            \A f \in Range(RelatedModel(relations[i]).fields) : f.name # n

NoUniqueCriterion ==
    \E i \in TableRelations : \E m \in {relations[i].model_a, relations[i].model_b} :
        /\ m.id_fields = <<>>
        /\ \A f \in Range(m.fields) : ~f.is_id /\ ~f.is_unique

\* C15: calculate never panics, and a datamodel with an index over an unknown
\* field, a relation reference to an unknown field or a join-table side with
\* neither identifier nor unique field makes it return an error.
C15_ErrorsNotPanics ==
    schema_pc = "done" =>
        /\ ~IsPanic(schema.v)
        /\ (UnknownIndexField \/ UnknownReference \/ NoUniqueCriterion)
               => schema.v.tag = "Err"

(***************************************************************************)
(* Properties of the query builder                                         *)
(***************************************************************************)
RECURSIVE Satisfies(_, _)
\* a row, as a function from column names to values, satisfies a condition
Satisfies(row, tree) ==
    CASE tree.t = "NoCondition" -> TRUE
      [] tree.t = "Equals" -> row[tree.column] = tree.value
      [] tree.t = "In" -> \E i \in 1..Len(tree.values) : row[tree.column] = tree.values[i]
      [] tree.t = "And" -> Satisfies(row, tree.a) /\ Satisfies(row, tree.b)
      [] tree.t = "Or" -> Satisfies(row, tree.a) \/ Satisfies(row, tree.b)

\* the row carries the values of the identifier on the columns
RowIs(row, id) ==
    \A i \in 1..Len(qb_columns) : row[qb_columns[i]] = id.pairs[i][2]

\* C16: a row satisfies conditions(columns, identifiers) exactly when its
\* values on the columns are those of one of the identifiers; for one column
\* the condition is the IN of the values.
C16_ConditionsMatchIdentifiers ==
    qb_pc = "conditions" =>
        /\ ~IsPanic(qb_out.v)
        /\ Len(qb_columns) = 1 =>
              qb_out.v = [t |-> "In", column |-> qb_columns[1],
                          values |-> [r \in 1..Len(qb_records) |-> qb_records[r].pairs[1][2]]]
        /\ \A row \in [Range(qb_columns) -> QbValues] :
              Satisfies(row, qb_out.v) <=> \E r \in 1..Len(qb_records) : RowIs(row, qb_records[r])

RECURSIVE Parameters(_)
\* the number of values a condition binds
Parameters(tree) ==
    CASE tree.t = "NoCondition" -> 0
      [] tree.t = "Equals" -> 1
      [] tree.t = "In" -> Len(tree.values)
      [] tree.t \in {"And", "Or"} -> Parameters(tree.a) + Parameters(tree.b)

\* C17: chunked_conditions emits a query for every chunk of the identifiers,
\* the queries together match the identifiers, and no query binds more than
\* PARAMETER_LIMIT values.
C17_ChunkParameters ==
    qb_pc = "chunked_conditions" =>
        /\ \A r \in 1..Len(qb_records) :
              \E k \in 1..Len(qb_out.v) :
                  \A row \in [Range(qb_columns) -> QbValues] :
                      RowIs(row, qb_records[r]) => Satisfies(row, qb_out.v[k].conditions)
        /\ \A k \in 1..Len(qb_out.v) :
              Parameters(qb_out.v[k].conditions) <= PARAMETER_LIMIT

\* C18: with_pagination emits one select for every distinct parent, which is
\* the base select with the skip, the limit and the order applied and filtered
\* by the parent, and joins the selects by UNION ALL.
C18_OneSelectPerParent ==
    qb_pc = "with_pagination" =>
        LET base == qb_base.v
            parents == {id.pairs[1][2] : id \in Range(base.from_record_ids)}
            selects == qb_out.v.selects
        IN  /\ qb_out.v.t = "Union"
            /\ Len(selects) = Cardinality(parents)
            /\ \A v \in parents :
                  \E i \in 1..Len(selects) :
                      selects[i].conditions.v.b = [t |-> "Equals", column |-> "user", value |-> v]
            /\ \A i \in 1..Len(selects) :
                  /\ selects[i].table = base.query.table
                  /\ selects[i].offset = [some |-> TRUE, v |-> base.skip_and_limit.skip]
                  /\ selects[i].limit = base.skip_and_limit.limit
                  /\ Len(selects[i].ordering) = 1
                  /\ selects[i].ordering[1].direction = base.order_directions
                  /\ selects[i].conditions.v.a.t = "And"
            /\ Len(qb_out.v.types) = (IF selects = <<>> THEN 0 ELSE Len(selects) - 1)
            /\ \A i \in 1..Len(qb_out.v.types) : qb_out.v.types[i] = "All"

(***************************************************************************)
(* Properties of the reads                                                 *)
(***************************************************************************)
Absence == {"RecordNotFoundForWhere", "RecordDoesNotExist"}

\* C19: get_single_record returns the record when find succeeds, no record
\* when find fails with RecordNotFoundForWhere or RecordDoesNotExist, and the
\* error of find when it fails otherwise.
C19_AbsenceIsNoFailure ==
    read_pc = "returned" =>
        LET out == read_out.v
        IN  /\ read_find.tag = "Ok" =>
                  /\ out.tag = "Ok" /\ out.v.some
                  /\ out.v.v.record.values = read_find.v.values
                  /\ Len(out.v.v.field_names) = Len(read_selected)
                  /\ \A i \in 1..Len(read_selected) :
                        out.v.v.field_names[i] = read_selected[i].db_name
            /\ (read_find.tag = "Err" /\ read_find.e.kind \in Absence) =>
                  out.tag = "Ok" /\ ~out.v.some
            /\ (read_find.tag = "Err" /\ read_find.e.kind \notin Absence) =>
                  out.tag = "Err" /\ out.e = read_find.e

\* find says that the record does not exist, and the read returns no record
C19_Witness ==
    /\ read_pc = "returned"
    /\ read_find = [tag |-> "Err", e |-> [kind |-> "RecordDoesNotExist"]]
    /\ read_out.v = [tag |-> "Ok", v |-> [some |-> FALSE]]

(***************************************************************************)
(* Properties of the nested-update graph                                   *)
(***************************************************************************)
\* the values the nested update was called with
NestedValues == coerce_vec(nested_input.v.value)

\* a record of the child model satisfies a filter
RECURSIVE Matches(_, _)
Matches(record, filter) ==
    CASE filter.t = "Empty" -> TRUE
      [] filter.t = "Equals" -> record[filter.field] = filter.value
      [] filter.t = "And" ->
            \A i \in 1..Len(filter.filters) : Matches(record, filter.filters[i])
      [] OTHER -> \E i \in 1..Len(filter.filters) : Matches(record, filter.filters[i])

\* the record an id names
Identified(record, id) ==
    \A i \in 1..Len(id.pairs) : record[id.pairs[i][1]] = id.pairs[i][2]

\* the records of the child model, by their id
ChildRecords == [{"id"} -> 1..2]

\* the builder handled every value
AllHandled == graph_pc \in {"built", "transformed", "ran", "aborted"}

\* the interpreter ran the transform of a nested update's edge
UpdateTransformed ==
    /\ transformed.some
    /\ graph.edges[transformed.v.edge].dependency.transform = "nested_update"

\* a list without one of its entries
Without(given, k) ==
    [i \in 1..(Len(given) - 1) |-> IF i < k THEN given[i] ELSE given[i + 1]]

\* the i-th value's read node, update node and edge
GainedFor(i) ==
    LET value == NestedValues[i]
        field == nested_input.v.parent_relation_field
        read == graph.nodes[2 * i]
        update == graph.nodes[2 * i + 1]
    IN  /\ read.kind = "RelatedRecordsQuery"
        /\ read.parent_field = field
        /\ IF field.is_list
           THEN LET where == map_remove(value.m, "where").removed.v.m
                IN  \A record \in [{where[1][1]} -> 1..2] :
                       Matches(record, read.args) <=> record[where[1][1]] = where[1][2].v
           ELSE read.args = Filter_empty
        /\ update.kind = "UpdateRecord"
        /\ update.model = nested_input.v.child_model
        /\ \E e \in 1..Len(graph.edges) :
              /\ graph.edges[e].from = 2 * i
              /\ graph.edges[e].to = 2 * i + 1
              /\ graph.edges[e].dependency.kind = "ParentIds"
              /\ graph.edges[e].dependency.transform = "nested_update"

\* what the transform of a nested update's edge did with the ids it was given
TransformedAsStated ==
    LET t == transformed.v
    IN  IF t.given = <<>>
        THEN /\ t.result = Err("AssertionError")
             /\ graph_pc # "ran"
        ELSE /\ t.result.tag = "Ok"
             /\ \E k \in 1..Len(t.given) :
                   /\ parent_ids = Without(t.given, k)
                   /\ \A record \in ChildRecords :
                         Matches(record, t.result.v.where)
                             <=> Matches(record, t.node.where) /\ Identified(record, t.given[k])
             /\ [t.result.v EXCEPT !.where = t.node.where] = t.node

\* C20: for every value connect_nested_update handled, the graph has a
\* read-children node (filtered by the value's where when the relation is
\* to-many), an update node and a ParentIds edge from the read to the update;
\* the edge's transform, given ids, drops exactly one of them and narrows the
\* update to the record of that id, changing nothing else of the update node,
\* and, given no id, fails with AssertionError and the update does not run
C20_NestedUpdateGraph ==
    /\ AllHandled =>
          /\ Len(graph.nodes) = 1 + 2 * Len(NestedValues)
          /\ \A i \in 1..Len(NestedValues) : GainedFor(i)
    /\ UpdateTransformed => TransformedAsStated

C20_Witness ==
    /\ graph_pc = "ran"
    /\ UpdateTransformed
    /\ Len(NestedValues) = 2
    /\ Len(transformed.v.given) = 2
    /\ nested_input.v.parent_relation_field.is_list

(***************************************************************************)
(* Properties of the graphs of nested upserts and of the relation checks   *)
(***************************************************************************)
\* the builder of the graph returned Ok
Built(builder) ==
    /\ nested_input.some
    /\ nested_input.v.builder = builder
    /\ graph_pc \in {"built", "execution failed"}

\* the nodes of a kind
NodesOf(kind) == {n \in 1..Len(graph.nodes) : graph.nodes[n].kind = kind}

\* the edges of a kind that leave a node
Leaving(n, kind) ==
    {e \in 1..Len(graph.edges) :
        graph.edges[e].from = n /\ graph.edges[e].dependency.kind = kind}

\* the nodes a node's edges of a kind lead to
Targets(n, kind) == {graph.edges[e].to : e \in Leaving(n, kind)}

\* the node whose ids an If node's predicate is made of
ReadOf(n) ==
    CHOOSE r \in 1..Len(graph.nodes) :
        \E e \in 1..Len(graph.edges) :
            /\ graph.edges[e].from = r
            /\ graph.edges[e].to = n
            /\ graph.edges[e].dependency.kind = "ParentIds"

\* the interpreter has no node left to run
Finished ==
    /\ graph_pc = "built"
    /\ \A n \in 1..Len(graph.nodes) : execution.state[n] # "waiting"

\* C21: in the graph of a nested upsert there is one If node per value; it has
\* exactly one Then edge, to an update node, and exactly one Else edge, to a
\* create node; once it has run its predicate holds exactly when the read of
\* the children returned an id; the update runs only when a child was read,
\* the create only when none was, never both, and one of them has run when
\* the interpreter has finished, which it does without an error
C21_UpsertBranches ==
    Built("upsert") =>
        /\ Cardinality(NodesOf("If")) = Len(coerce_vec(nested_input.v.value))
        /\ graph_pc = "built"
        /\ \A n \in NodesOf("If") :
              /\ Cardinality(Leaving(n, "Then")) = 1
              /\ Cardinality(Leaving(n, "Else")) = 1
              /\ \A u \in Targets(n, "Then") : \A c \in Targets(n, "Else") :
                    /\ graph.nodes[u].kind = "UpdateRecord"
                    /\ graph.nodes[c].kind = "CreateRecord"
                    /\ execution.state[n] = "done" =>
                          (graph.nodes[n].predicate <=> execution.ids[ReadOf(n)] # <<>>)
                    /\ execution.state[u] = "done" => execution.ids[ReadOf(n)] # <<>>
                    /\ execution.state[c] = "done" => execution.ids[ReadOf(n)] = <<>>
                    /\ ~(execution.state[u] = "done" /\ execution.state[c] = "done")
                    /\ Finished =>
                          \/ execution.state[u] = "done" /\ execution.state[c] = "skipped"
                          \/ execution.state[u] = "skipped" /\ execution.state[c] = "done"

C21_Witness ==
    /\ Built("upsert")
    /\ Finished
    /\ \E n \in NodesOf("If") : \E c \in Targets(n, "Else") :
          /\ execution.state[c] = "done"
          /\ execution.ids[ReadOf(n)] = <<>>

\* nodes can be taken away one by one, each when no edge from a node left leads
\* to it, until none is left
RECURSIVE Peels(_, _)
Peels(g, nodes) ==
    LET free == {n \in nodes :
                    \A e \in 1..Len(g.edges) : g.edges[e].to = n => g.edges[e].from \notin nodes}
    IN  IF nodes = {} THEN TRUE
        ELSE IF free = {} THEN FALSE
        ELSE Peels(g, nodes \ free)

Acyclic(g) == Peels(g, 1..Len(g.nodes))

\* C22: the graph stays acyclic under any sequence of applications of
\* connect_nested_update, connect_nested_update_many, connect_nested_upsert,
\* insert_existing_1to1_related_model_checks and insert_deletion_checks (the
\* last one given a child node with no path to the parent node)
C22_BuildersKeepAcyclic ==
    graph_pc = "building" => Acyclic(graph)

C22_Witness ==
    /\ graph_pc = "building"
    /\ nested_input.v.builder = "deletion_checks"
    /\ Cardinality(NodesOf("Empty")) = 1
    /\ Cardinality(NodesOf("If")) = 1

\* the values of the nested upsert all carry a create and an update map
UpsertArgumentsGiven ==
    \A i \in 1..Len(NestedValues) :
        /\ NestedValues[i].kind = "Map"
        /\ \A key \in {"create", "update"} :
              /\ map_remove(NestedValues[i].m, key).removed.some
              /\ map_remove(NestedValues[i].m, key).removed.v.kind = "Map"

\* the where argument of a value is present, has one key, and no null value
WhereAccepted(value) ==
    LET where == map_remove(value.m, "where").removed
    IN  /\ where.some
        /\ where.v.kind = "Map"
        /\ Len(where.v.m) = 1
        /\ where.v.m[1][2] # PSingle(Null)

\* C23: for a to-many relation connect_nested_upsert takes a where argument
\* that is present, has exactly one key and a non-null value, and makes it the
\* filter of the read of the children; it answers any other where argument
\* with an error, not with a panic; for a to-one relation the read's filter
\* is empty
C23_WhereCheckedOrRejected ==
    (/\ nested_input.some
     /\ nested_input.v.builder = "upsert"
     /\ graph_pc # "new"
     /\ UpsertArgumentsGiven) =>
        IF nested_input.v.parent_relation_field.is_list
        THEN IF \A i \in 1..Len(NestedValues) : WhereAccepted(NestedValues[i])
             THEN /\ graph_pc \in {"built", "execution failed"}
                  /\ \A n \in NodesOf("RelatedRecordsQuery") :
                        \E i \in 1..Len(NestedValues) :
                            graph.nodes[n].args =
                                extract_filter(map_remove(NestedValues[i].m, "where").removed.v.m)
             ELSE graph_pc = "failed"
        ELSE /\ graph_pc \in {"built", "execution failed"}
             /\ \A n \in NodesOf("RelatedRecordsQuery") : graph.nodes[n].args = Filter_empty

\* the same, of the values that carry a where argument
C23_GivenWhereChecked ==
    (\A i \in 1..Len(NestedValues) :
        NestedValues[i].kind = "Map" => map_remove(NestedValues[i].m, "where").removed.some)
        => C23_WhereCheckedOrRejected

\* there is a ParentIds edge from a node to another
Feeds(a, b) ==
    \E e \in 1..Len(graph.edges) :
        /\ graph.edges[e].from = a
        /\ graph.edges[e].to = b
        /\ graph.edges[e].dependency.kind = "ParentIds"

\* the value of the last id a node returned
LastId(n) == single_value(execution.ids[n][Len(execution.ids[n])])

\* a write's arguments set a field to a value
Sets(n, name, value) ==
    \E i \in 1..Len(graph.nodes[n].args) : graph.nodes[n].args[i] = <<name, PSingle(value)>>

\* a write's arguments name a field
Names(n, name) ==
    \E i \in 1..Len(graph.nodes[n].args) : graph.nodes[n].args[i][1] = name

\* what connect_nested_upsert adds for a many-to-many relation and for a
\* one-to-x relation inlined in the parent, given a value's create node
ConnectedOrParentUpdated(c) ==
    LET field == nested_input.v.parent_relation_field
    IN  IF field.is_many_to_many
        THEN \E k \in NodesOf("ConnectRecords") : Feeds(1, k) /\ Feeds(c, k)
        ELSE field.relation_is_inlined_in_parent =>
                \E k \in NodesOf("UpdateManyRecords") :
                    /\ graph.nodes[k].model = field.model
                    /\ Feeds(1, k)
                    /\ Feeds(c, k)
                    /\ execution.state[k] = "done" =>
                          /\ \A record \in ChildRecords :
                                Matches(record, graph.nodes[k].filter)
                                    <=> record["id"] = LastId(1)
                          /\ Sets(k, field.name, LastId(c))

\* the relation is one-to-x and inlined in the child
InlinedInChild ==
    /\ ~nested_input.v.parent_relation_field.is_many_to_many
    /\ ~nested_input.v.parent_relation_field.relation_is_inlined_in_parent

\* C24 as stated: for a many-to-many relation a connect node is fed by the
\* parent and by the created child; for a one-to-x relation inlined in the
\* parent an update of the parent is filtered by the parent's id and sets the
\* relation field to the created child's id; for a one-to-x relation inlined
\* in the child the parent's id is injected into the child create and into
\* the child update
C24_UpsertRelationEdgesAsStated ==
    Built("upsert") =>
        \A n \in NodesOf("If") :
            \A u \in Targets(n, "Then") : \A c \in Targets(n, "Else") :
                /\ ConnectedOrParentUpdated(c)
                /\ InlinedInChild =>
                      /\ execution.state[c] = "done" =>
                            Sets(c, nested_input.v.parent_relation_field.related_field.name,
                                 LastId(1))
                      /\ execution.state[u] = "done" =>
                            Sets(u, nested_input.v.parent_relation_field.related_field.name,
                                 LastId(1))

\* C24, amended: the same for the many-to-many relation and the relation
\* inlined in the parent; for a one-to-x relation inlined in the child the
\* parent's id is injected into the child create only: the child update has
\* no edge from the parent and runs without the back-reference among its
\* arguments
C24_UpsertRelationEdges ==
    Built("upsert") =>
        \A n \in NodesOf("If") :
            \A u \in Targets(n, "Then") : \A c \in Targets(n, "Else") :
                /\ ConnectedOrParentUpdated(c)
                /\ InlinedInChild =>
                      /\ Feeds(1, c)
                      /\ execution.state[c] = "done" =>
                            Sets(c, nested_input.v.parent_relation_field.related_field.name,
                                 LastId(1))
                      /\ ~Feeds(1, u)
                      /\ ~Names(u, nested_input.v.parent_relation_field.related_field.name)

C24_Witness ==
    /\ Built("upsert")
    /\ Finished
    /\ InlinedInChild
    /\ \E n \in NodesOf("If") : \E u \in Targets(n, "Then") :
          /\ execution.state[u] = "done"
          /\ ~Names(u, nested_input.v.parent_relation_field.related_field.name)

\* there is an ExecutionOrder edge from a node to another
Orders(a, b) ==
    \E e \in 1..Len(graph.edges) :
        /\ graph.edges[e].from = a
        /\ graph.edges[e].to = b
        /\ graph.edges[e].dependency.kind = "ExecutionOrder"

\* a node has run and returned an id
ReturnedSome(n) == execution.state[n] = "done" /\ execution.ids[n] # <<>>

\* a node has run and returned no id
ReturnedNone(n) == execution.state[n] = "done" /\ execution.ids[n] = <<>>

\* C25: insert_deletion_checks adds one read per relation field requiring the
\* model, each read of the related records of the deleted one; the reads are
\* chained by ExecutionOrder edges in the order of the fields, each feeds the
\* single Empty node, and the Empty node gates the delete. The delete runs
\* only after every read has completed without a record; a read that returned
\* a record keeps the Empty node and the delete from running, and the only
\* error the execution ends with is RelationViolation, after such a read.
\* Without a requiring field no node and no edge is added.
C25_DeletionChecksGateDelete ==
    Built("deletion_checks") =>
        LET n == Len(nested_input.v.relation_fields)
            reads == NodesOf("RelatedRecordsQuery")
            noops == NodesOf("Empty")
        IN  /\ n = 0 => graph = DeleteGraph
            /\ n > 0 =>
                  /\ Len(graph.nodes) = Len(DeleteGraph.nodes) + n + 1
                  /\ Len(graph.edges) = Len(DeleteGraph.edges) + 3 * n
                  /\ Cardinality(reads) = n
                  /\ Cardinality(noops) = 1
                  /\ \A r \in reads :
                        /\ graph.nodes[r].parent_field \in
                              {nested_input.v.relation_fields[i].related_field : i \in 1..n}
                        /\ graph.nodes[r].args = Filter_empty
                        /\ Feeds(1, r)
                        /\ \A k \in noops : Feeds(r, k)
                        /\ \A s \in reads : Orders(r, s) <=> s = r + 1
                  /\ \A k \in noops : Orders(k, 2)
                  /\ execution.state[2] = "done" => \A r \in reads : ReturnedNone(r)
                  /\ (\E r \in reads : ReturnedSome(r)) =>
                        /\ execution.state[2] # "done"
                        /\ \A k \in noops : execution.state[k] # "done"
                  /\ graph_pc = "execution failed" =>
                        /\ execution.error = Some("RelationViolation")
                        /\ \E r \in reads : ReturnedSome(r)
                        /\ \A r \in reads : execution.state[r] = "done"

C25_Witness ==
    /\ Built("deletion_checks")
    /\ Len(nested_input.v.relation_fields) = MaxRelations
    /\ execution.state[2] = "done"
    /\ \A r \in NodesOf("RelatedRecordsQuery") : ReturnedNone(r)

\* C26: in the graph of insert_existing_1to1_related_model_checks, when a
\* previous child exists and the child side of the relation is required the
\* execution ends with RelationViolation and neither the If node nor the
\* update runs; otherwise the If node's predicate is true exactly when the
\* relation is inlined on the child and a previous child exists, and only then
\* the Then branch runs the update, which filters on the previous child's id
\* and sets the child's back-reference to null
C26_ExistingChildChecked ==
    Built("existing_checks") =>
        LET field == nested_input.v.parent_relation_field
            reads == NodesOf("RelatedRecordsQuery")
            updates == NodesOf("UpdateManyRecords")
        IN  /\ Cardinality(reads) = 1
            /\ Cardinality(updates) = 1
            /\ Cardinality(NodesOf("If")) = 1
            /\ \A r \in reads : \A n \in NodesOf("If") : \A u \in updates :
                  /\ Targets(n, "Then") = {u}
                  /\ Targets(n, "Else") = {}
                  /\ graph.nodes[u].model = field.related_model
                  /\ (ReturnedSome(r) /\ field.related_field.is_required) =>
                        /\ execution.state[n] # "done"
                        /\ execution.state[u] # "done"
                  /\ graph_pc = "execution failed" =>
                        /\ execution.error = Some("RelationViolation")
                        /\ ReturnedSome(r)
                        /\ field.related_field.is_required
                  /\ execution.state[n] = "done" =>
                        (graph.nodes[n].predicate <=>
                            (~field.relation_is_inlined_in_parent /\ ReturnedSome(r)))
                  /\ execution.state[u] = "done" =>
                        /\ execution.state[n] = "done"
                        /\ graph.nodes[n].predicate
                        /\ \A record \in ChildRecords :
                              Matches(record, graph.nodes[u].filter)
                                  <=> record["id"] = LastId(r)
                        /\ Sets(u, field.related_field.name, Null)

C26_Witness ==
    /\ Built("existing_checks")
    /\ ~nested_input.v.parent_relation_field.relation_is_inlined_in_parent
    /\ \E u \in NodesOf("UpdateManyRecords") :
          /\ execution.state[u] = "done"
          /\ Sets(u, "blog", Null)

(***************************************************************************)
(* Properties of the tables of the calculated schema                       *)
(***************************************************************************)
\* the names of the columns of a table
ColumnsOf(table) == {c.name : c \in Range(table.columns)}

\* a datamodel the validation of the schema language lets through: the
\* compound ids, the indexes and the relation references name scalar fields
\* of their model, each at most once, and a model has one kind of id at most
\* and an id or a unique field at least
Validated ==
    /\ ~UnknownIndexField
    /\ ~UnknownReference
    /\ \A m \in Range(datamodel.models) :
          /\ \A i, j \in 1..Len(m.fields) : m.fields[i].name = m.fields[j].name => i = j
          /\ \A i, j \in 1..Len(m.id_fields) : m.id_fields[i] = m.id_fields[j] => i = j
          /\ \A n \in Range(m.id_fields) :
                \E f \in Range(m.fields) : f.name = n /\ f.field_type.t = "Base"
          /\ \A x \in Range(m.indices) : \A n \in Range(x.fields) :
                \E f \in Range(m.fields) : f.name = n /\ f.field_type.t = "Base"
          /\ Cardinality({i \in 1..Len(m.fields) : m.fields[i].is_id}) <= 1
          /\ (\E f \in Range(m.fields) : f.is_id) => m.id_fields = <<>>
          /\ \/ m.id_fields # <<>>
             \/ \E f \in Range(m.fields) : f.is_id \/ f.is_unique

\* C27: in every table of the schema calculate returns for a validated
\* datamodel, every column name listed by the primary key, by an index or by
\* the columns of a foreign key is the name of a column of that table
C27_ListedColumnsExist ==
    (Returned /\ Validated) =>
        \A t \in Range(schema.v.v.tables) :
            /\ t.primary_key.some => Range(t.primary_key.v.columns) \subseteq ColumnsOf(t)
            /\ \A x \in Range(t.indices) : Range(x.columns) \subseteq ColumnsOf(t)
            /\ \A k \in Range(t.foreign_keys) : Range(k.columns) \subseteq ColumnsOf(t)

\* the primary keys and the foreign keys alone list columns of their table
C27_KeysListColumns ==
    (Returned /\ Validated) =>
        \A t \in Range(schema.v.v.tables) :
            /\ t.primary_key.some => Range(t.primary_key.v.columns) \subseteq ColumnsOf(t)
            /\ \A k \in Range(t.foreign_keys) : Range(k.columns) \subseteq ColumnsOf(t)

\* C28: every foreign key of the schema returned for a validated datamodel,
\* of an inline relation and of a join table alike, has as many columns as
\* referenced columns
C28_ForeignKeyArity ==
    (Returned /\ Validated) =>
        \A t \in Range(schema.v.v.tables) :
            \A k \in Range(t.foreign_keys) :
                Len(k.columns) = Len(k.referenced_columns)

(***************************************************************************)
(* Properties of sanitize_datamodel_names                                  *)
(***************************************************************************)
\* the enum-typed fields of a datamodel name an enum of the datamodel
EnumsResolve(dm) ==
    \A m \in 1..Len(dm.models) : \A f \in 1..Len(dm.models[m].fields) :
        dm.models[m].fields[f].field_type.t = "Enum" =>
            \E e \in 1..Len(dm.enums) :
                dm.enums[e].name = dm.models[m].fields[f].field_type.enum_name

\* the compound ids and the indexes of a datamodel name fields of their model
FieldsResolve(dm) ==
    \A m \in 1..Len(dm.models) :
        LET names == {dm.models[m].fields[f].name : f \in 1..Len(dm.models[m].fields)}
        IN  /\ \A i \in 1..Len(dm.models[m].id_fields) : dm.models[m].id_fields[i] \in names
            /\ \A x \in 1..Len(dm.models[m].indices) :
                  \A i \in 1..Len(dm.models[m].indices[x].fields) :
                      dm.models[m].indices[x].fields[i] \in names

\* C29: when every enum-typed field of the datamodel names an enum of the
\* datamodel and every compound-id entry and index field names a field of its
\* model, the same holds of the datamodel sanitize_datamodel_names leaves,
\* also for enums named after a model and a field and for enums that type
\* fields of several models
C29_ReferencesPreserved ==
    (san_pc = "names sanitized"
        /\ EnumsResolve(san_datamodel.v) /\ FieldsResolve(san_datamodel.v)) =>
            EnumsResolve(san_out.v) /\ FieldsResolve(san_out.v)

\* the compound ids and the indexes alone keep naming fields of their model
C29_FieldReferencesPreserved ==
    (san_pc = "names sanitized" /\ FieldsResolve(san_datamodel.v)) =>
        FieldsResolve(san_out.v)

C30_ShapeUnlessOrderColumnAdded ==
    (read_related.some /\ read_pc = "returned" /\ read_out.v.tag = "Ok"
        /\ ~(/\ uses_row_number(read_related.v.T)
             /\ read_related.v.query_arguments.is_with_pagination
             /\ read_related.v.query_arguments.order_by.some
             /\ read_related.v.query_arguments.order_by.v \notin Range(read_selected))) =>
        LET rows == read_related.v.table.records
            records == read_out.v.v.records
        IN  /\ Len(records) = Len(rows)
            /\ \A i \in 1..Len(records) :
                  /\ records[i].parent_id.some
                  /\ records[i].parent_id.v.pairs[1][2] = rows[i].parent_id
                  /\ records[i].values =
                        [f \in 1..Len(read_selected) |->
                            rows[i].values[read_selected[f].db_name]]
                            \o <<rows[i].parent_id>>

=============================================================================
